---- MODULE Spec2Model ----
(***************************************************************************)
(* Agent orchestration core of backend/multi_agent_system.py.              *)
(*                                                                         *)
(* All coroutines run on one asyncio event loop (FastAPI async handlers in *)
(* backend/main.py).  A coroutine keeps the loop until it awaits something *)
(* that is not ready; LLMAgent.process awaits only pause_event.wait(), and *)
(* its backend request (requests.post) is a blocking call during which no  *)
(* other coroutine runs.                                                   *)
(***************************************************************************)
EXTENDS Integers, Sequences, FiniteSets, TLC

(***************************************************************************)
(* Bounds of the model.                                                    *)
(***************************************************************************)
MaxCalls == 2       \* direct process() calls explored in SpecAgent
MaxIds == 3         \* longest agent_ids list handed to the orchestrator
LoopBudget == 4     \* most process() calls one run_loop_agents call may need
MaxLines == 2       \* most lines of a backend reply that uses tools
MaxA2ACalls == 4    \* calls made on the A2A channel
MaxOps == 4         \* calls made on the tracer and on its spans
MaxSpans == 3       \* spans started
MaxTime == 2        \* latest reading of time.time()
MaxMetricCalls == 3 \* calls made on the metrics collector in SpecCounters
MaxSamples == 4     \* single calls made on the metrics collector in SpecSummary
MaxIncrements == 2  \* counter() calls made by each thread in SpecThreads
MaxCycles == 3      \* cycles of the sampler thread
MaxObserverCalls == 3 \* calls made on the manager's observers
MaxLogLen == 2      \* most messages process_message logs in one session in SpecSessions
MaxDispatches == 2  \* process() calls made for the process_message calls of SpecSessions
MaxConfigCalls == 3 \* calls made on the manager's dashboards, trace lookup and export

DefaultMaxIterations == 5    \* run_loop_agents(..., max_iterations: int = 5)

AgentIds == {"a1", "a2"}
Senders == {"user", "peer"}
SessionIds == {"s1", "s2"}

\* the agent that callers pause and resume while the orchestrator runs, and
\* the agent whose process() is called directly in SpecAgent
Pausable == {"a1"}

\* a1 is an LLMAgent; a2 is some other BaseAgent subclass, whose process()
\* the orchestrator can only assume to return a Message or to raise.
IsLLM(a) == a = "a1"

(***************************************************************************)
(* Message contents are sequences of tokens.                               *)
(***************************************************************************)
Sentinel == <<"CONVERGED">>

UpperTok(c) ==
    CASE c = "h" -> "H"
      [] c = "i" -> "I"
      [] OTHER -> c

Upper(s) == [k \in DOMAIN s |-> UpperTok(s[k])]

\* Python's `sub in s` on strings
Contains(s, sub) ==
    \E k \in 0..(Len(s) - Len(sub)) :
        \A j \in 1..Len(sub) : s[k + j] = sub[j]

NoMsg == [id |-> -1, content |-> <<>>, sender |-> "", recipient |-> ""]

\* Message(...): id is a fresh uuid4, modelled by the number of the call that
\* builds it; the messages handed in from outside carry id 0.
Message(id, content, sender, recipient) ==
    [id |-> id, content |-> content, sender |-> sender, recipient |-> recipient]

\* a user content that asks for tool use
ToolPrompt == <<"q">>

InputMessages ==
    {Message(0, <<"h", "i">>, s, "system") : s \in Senders}

ToolMessages == {Message(0, ToolPrompt, s, "system") : s \in Senders}

\* backend/main.py, chat(): AgentMessage(content=..., sender="user", recipient="system")
ChatMessages == {Message(0, <<"h", "i">>, "user", "system")}

(***************************************************************************)
(* The LLM backend: what requests.post(...) can do for a user content.     *)
(***************************************************************************)
Replies(content) ==
    {Upper(content), content \o <<"!">>, <<"ok">> \o Sentinel}

\* Replies to a tool prompt are made of lines, one token per line: plain
\* text, a line that only mentions "use_tool:", and the directive lines
\* "use_tool:<json>", whose json names a tool or does not parse.
ToolLines ==
    {"ok", " use_tool:search", "use_tool:search", "use_tool:boom",
     "use_tool:nope", "use_tool:{bad"}

ToolReplies == {r \in UNION {[1..n -> ToolLines] : n \in 1..MaxLines} : TRUE}

\* raised: requests.post raised; status, text: response.status_code and
\* response.text; usage_ok: result["usage"] is absent or a dict whose
\* total_tokens is a number (tokens), as opposed to "usage": null.
BackendOutcomes(content) ==
    IF content = ToolPrompt
    THEN {[raised |-> FALSE, status |-> 200, text |-> r, tokens |-> 1, usage_ok |-> TRUE] :
              r \in ToolReplies}
         \cup {[raised |-> FALSE, status |-> 200, text |-> <<"ok">>, tokens |-> 0, usage_ok |-> FALSE]}
    ELSE {[raised |-> FALSE, status |-> 200, text |-> r, tokens |-> 1, usage_ok |-> TRUE] :
              r \in Replies(content)}
         \cup {[raised |-> FALSE, status |-> 500, text |-> <<"bad">>, tokens |-> 0, usage_ok |-> TRUE],
               [raised |-> TRUE, status |-> 0, text |-> <<"timeout">>, tokens |-> 0, usage_ok |-> TRUE]}

NoResponse == [raised |-> FALSE, status |-> 0, text |-> <<>>, tokens |-> 0, usage_ok |-> TRUE]

VARIABLES
    registry,     \* AgentOrchestrator.agents: the registered ids, in insertion order
    state,        \* BaseAgent.state of every agent
    event,        \* BaseAgent.pause_event: TRUE when set (not paused)
    waiters,      \* pause_event._waiters: the calls blocked in pause_event.wait(), oldest first
    metrics,      \* BaseAgent.metrics (set = FALSE: still None)
    tasks,        \* every process() invocation made so far, in creation order
    ready,        \* the event loop's ready queue (scheduled process() invocations)
    orch,         \* the orchestrator coroutine being run
    sessions,     \* InMemorySessionService.sessions / memory_banks
    a2a,          \* A2AProtocol: message_queue, subscriptions, and what its calls returned
    spans,        \* Tracer.spans: span_id -> Span
    active_spans, \* Tracer.active_spans: thread id -> span_id
    traces,       \* Tracer.traces: trace_id -> span ids
    uuids,        \* how many uuid4() values have been drawn
    clock,        \* what time.time() returns now
    exec,         \* the executions that use the tracer, and their locals
    tcall,        \* the last call made on the tracer or on a span, and their number
    collector,    \* MetricsCollector: metrics, counters, gauges, histograms, timers
    workers,      \* the threads that are inside MetricsCollector.counter, and their locals
    manager       \* ObservabilityManager: agent_observers, alert_rules, the sampler thread

\* the agent orchestration core
core == <<registry, state, event, waiters, metrics, tasks, ready, orch, sessions>>

\* backend/observability.py: the tracer, its spans, and its callers
obs == <<spans, active_spans, traces, uuids, clock, exec, tcall>>

\* backend/observability.py: the metrics collector, its callers, the manager
mon == <<collector, workers, manager>>

\* what the agent orchestration core never touches
others == <<a2a, obs, mon>>

vars == <<core, a2a, obs, mon>>

NoMetrics ==
    [set |-> FALSE, execution_count |-> 0, success_count |-> 0,
     error_count |-> 0, total_tokens |-> 0]

\* AgentMetrics(self.agent_id, time.time())
AgentMetrics ==
    [set |-> TRUE, execution_count |-> 0, success_count |-> 0,
     error_count |-> 0, total_tokens |-> 0]

\* The orchestrator coroutine: which entry point was called with which
\* arguments, its locals, where it stands (pc) and what it returned (ret: the
\* Message for a call that returns one Message, the list for one that returns
\* a list).
IdleOrch ==
    [entry |-> "none", pc |-> "idle", agent_ids |-> <<>>,
     message |-> NoMsg, max_iterations |-> 0, i |-> 0, it |-> 0,
     current_message |-> NoMsg, results |-> <<>>, iteration_results |-> <<>>,
     task |-> 0, tasks |-> <<>>, session |-> "", mode |-> "none",
     returns |-> "nothing", ret |-> <<>>]

NoSession == [exists |-> FALSE, messages |-> <<>>, episodes |-> <<>>]

\* the topics of the A2A channel
Topics == {"t", "u"}

\* A2AProtocol.__init__: both dicts empty.  A key that is missing and a key
\* that holds [] read the same (`.get(agent_id, [])`, `topic in
\* self.subscriptions` followed by a loop), so both are the empty sequence.
\* call is the last call made on the channel and what it returned, calls
\* their number.
NoA2ACall == [op |-> "none", agent |-> "", topic |-> "", message |-> NoMsg, ret |-> <<>>]

InitA2A ==
    [message_queue |-> [a \in AgentIds |-> <<>>],
     subscriptions |-> [t \in Topics |-> <<>>],
     call |-> NoA2ACall,
     calls |-> 0]

\* The executions that call the tracer: c1 and c2 are coroutines of the
\* event loop (the chat handler, agent executions of a parallel run), which
\* all run on the event loop's thread; c3 runs on a thread of its own.
Execs == {"c1", "c2", "c3"}

Threads == {"T1", "T2"}

\* str(threading.get_ident()) of the thread that runs execution c
ThreadOf(c) == IF c = "c3" THEN "T2" ELSE "T1"

\* None, for a span id, a timestamp or a trace id
None == 0

\* trace ids a caller passes to start_span, and the n-th one made by
\* str(uuid.uuid4()); span ids are uuid4 values of their own, numbered in the
\* order of the Span(...) constructions
TraceArgs == {901}

FreshTraceId(n) == 100 + n

TraceIds == TraceArgs \cup {FreshTraceId(n) : n \in 1..(MaxSpans + 1)}

\* An execution's locals: where it stands in `with tracer.trace(...)` (pc),
\* the span the helper holds (span), the spans it started (started, oldest
\* first), and how its last `with` statement was left (exit) and with which
\* exception (exc).
InitExec ==
    [pc |-> "idle", span |-> None, started |-> <<>>, exit |-> "none", exc |-> "none"]

NoTracerCall ==
    [n |-> 0, op |-> "none", exec |-> "", span |-> None, parent |-> None,
     trace_id |-> None, exc |-> "none"]

\* BaseAgent.__init__ for every agent, AgentOrchestrator.__init__,
\* InMemorySessionService.__init__, A2AProtocol.__init__, Tracer.__init__
\* MetricsCollector.__init__: every map is empty; log is the calls made on
\* the collector so far, oldest first
InitCollector ==
    [metrics |-> <<>>, counters |-> <<>>, gauges |-> <<>>, histograms |-> <<>>,
     timers |-> <<>>, log |-> <<>>]

\* the threads that call MetricsCollector.counter at the same time
Workers == {"w1", "w2"}

IdleWorker == [pc |-> "idle", name |-> "", value |-> 0, labels |-> <<>>, total |-> 0,
               done |-> 0]

\* ObservabilityManager.__init__: no observer, no alert rule, no dashboard;
\* the sampler thread is started and about to enter its first cycle (errors
\* is the last cycle in which it logged an error, outcomes what the rules'
\* conditions and actions did in the last check)
NoManagerCall == [op |-> "none", agent_id |-> "", ret |-> 0, span |-> 0]

InitManager ==
    [agent_observers |-> <<>>, created |-> 0, alert_rules |-> <<>>, dashboards |-> <<>>,
     sampler |-> [alive |-> TRUE, cycles |-> 0, errors |-> 0, outcomes |-> <<>>],
     call |-> NoManagerCall, calls |-> 0]

Init ==
    /\ a2a = InitA2A
    /\ spans = <<>>
    /\ active_spans = [th \in Threads |-> None]
    /\ traces = <<>>
    /\ uuids = 0
    /\ clock = 1
    /\ exec = [c \in Execs |-> InitExec]
    /\ tcall = NoTracerCall
    /\ collector = InitCollector
    /\ workers = [w \in Workers |-> IdleWorker]
    /\ manager = InitManager
    /\ registry = <<>>
    /\ state = [a \in AgentIds |-> "idle"]
    /\ event = [a \in AgentIds |-> TRUE]
    /\ waiters = [a \in AgentIds |-> <<>>]
    /\ metrics = [a \in AgentIds |-> NoMetrics]
    /\ tasks = <<>>
    /\ ready = <<>>
    /\ orch = IdleOrch
    /\ sessions = [s \in SessionIds |-> NoSession]

\* the event loop is inside a blocking requests.post of some process() call
Blocked == \E t \in DOMAIN tasks : tasks[t].pc = "calling"

Range(s) == {s[k] : k \in DOMAIN s}

(***************************************************************************)
(* BaseAgent.pause / BaseAgent.resume                                      *)
(***************************************************************************)
Pause(a) ==
    /\ ~Blocked
    /\ state' = [state EXCEPT ![a] = "paused"]
    /\ event' = [event EXCEPT ![a] = FALSE]
    /\ UNCHANGED <<registry, waiters, metrics, tasks, ready, orch, sessions>>
    /\ UNCHANGED others

\* asyncio.Event.set(): when the event was clear, every waiter's future is
\* resolved, which schedules the waiting calls on the ready queue in the order
\* in which they started waiting.
Resume(a) ==
    /\ ~Blocked
    /\ state' = [state EXCEPT ![a] = "running"]
    /\ event' = [event EXCEPT ![a] = TRUE]
    /\ IF event[a]
       THEN UNCHANGED <<waiters, tasks, ready>>
       ELSE /\ waiters' = [waiters EXCEPT ![a] = <<>>]
            /\ ready' = ready \o waiters[a]
            /\ tasks' = [t \in DOMAIN tasks |->
                            IF t \in Range(waiters[a])
                            THEN [tasks[t] EXCEPT !.pc = "woken"]
                            ELSE tasks[t]]
    /\ UNCHANGED <<registry, metrics, orch, sessions>>
    /\ UNCHANGED others

(***************************************************************************)
(* LLMAgent.process, up to the backend request.                            *)
(***************************************************************************)
\* lines 226-228: self.state = RUNNING; metrics created on the first call
BeginCall(a) ==
    /\ state' = [state EXCEPT ![a] = "running"]
    /\ metrics' = [metrics EXCEPT ![a] = IF @.set THEN @ ELSE AgentMetrics]

\* as Enter, without `await self.pause_event.wait()`
EnterWithoutWait(t, base) ==
    LET a == base[t].agent
    IN  /\ BeginCall(a)
        /\ tasks' = [base EXCEPT ![t].pc = "calling"]
        /\ UNCHANGED waiters

\* The coroutine of invocation t (the last field values are in base) runs
\* from its start to its first suspension.
Enter(t, base) ==
    LET a == base[t].agent
        msg == base[t].msg
    IN  IF IsLLM(a)
        THEN IF event[a]
             THEN /\ BeginCall(a)
                  /\ tasks' = [base EXCEPT ![t].pc = "calling"]
                  /\ UNCHANGED waiters
             ELSE /\ waiters' = [waiters EXCEPT ![a] = Append(@, t)]
                  /\ tasks' = [base EXCEPT ![t].pc = "waiting", ![t].blocked = TRUE]
                  /\ UNCHANGED <<state, metrics>>
        ELSE \E raises \in BOOLEAN, r \in Replies(msg.content) :
                /\ tasks' = [base EXCEPT
                       ![t].pc = IF raises THEN "raised" ELSE "done",
                       ![t].result = IF raises THEN NoMsg
                                     ELSE Message(t, r, a, msg.sender)]
                /\ UNCHANGED <<state, metrics, waiters>>

\* A process() invocation: its agent and argument, where it stands (pc),
\* whether it had to wait in pause_event.wait() (blocked), the backend's
\* answer (response) and the Message it returned (result).
NewTask(a, msg, owner) ==
    [agent |-> a, msg |-> msg, pc |-> "new", blocked |-> FALSE,
     response |-> NoResponse, result |-> NoMsg, owner |-> owner]

\* The awaiting caller has taken what the invocation returned and the
\* coroutine object is gone: only the fact that the call was made remains.
Released(task) ==
    [task EXCEPT !.pc = "returned", !.msg = NoMsg, !.blocked = FALSE,
                 !.response = NoResponse, !.result = NoMsg]

\* some caller awaits agent.process(msg) directly
Process(a, msg) ==
    /\ ~Blocked
    /\ Len(tasks) < MaxCalls
    /\ Enter(Len(tasks) + 1, Append(tasks, NewTask(a, msg, "direct")))
    /\ UNCHANGED <<registry, event, ready, orch, sessions>>
    /\ UNCHANGED others

\* the event loop runs the next scheduled invocation: one that
\* pause_event.wait() has released goes on after line 224
WakeTask ==
    /\ ~Blocked
    /\ ready # <<>>
    /\ LET t == Head(ready) IN
        /\ tasks[t].pc = "woken"
        /\ BeginCall(tasks[t].agent)
        /\ tasks' = [tasks EXCEPT ![t].pc = "calling"]
    /\ ready' = Tail(ready)
    /\ UNCHANGED <<registry, event, waiters, orch, sessions>>
    /\ UNCHANGED others

(***************************************************************************)
(* LLMAgent.process, from the backend's answer to the return.              *)
(***************************************************************************)
\* if response.status_code == 200
Accepted(br) == ~br.raised /\ br.status = 200

\* the try block reaches its return: nothing raises on the way, the token
\* count of line 265 included
Succeeds(br) == Accepted(br) /\ br.usage_ok

\* f"Error: {str(e)}"
ErrorContent(br) ==
    IF br.raised THEN <<"Error:">> \o br.text
    ELSE IF br.status # 200 THEN <<"Error:", "LLM API error:">> \o br.text
    ELSE <<"Error:", "'NoneType' object has no attribute 'get'">>

\* self.tools of an agent, as add_tool left them: "search" returns a result,
\* "boom" raises
AgentTools(a) == IF IsLLM(a) THEN {"search", "boom"} ELSE {}

\* line.startswith("use_tool:")
StartsWithUseTool(line) ==
    line \in {"use_tool:search", "use_tool:boom", "use_tool:nope", "use_tool:{bad"}

\* "use_tool:" in content
MentionsUseTool(content) ==
    \E k \in DOMAIN content :
        StartsWithUseTool(content[k]) \/ content[k] = " use_tool:search"

\* json.loads(line.replace("use_tool:", "").strip()) and tool_data.get("name")
ToolCall(line) ==
    CASE line = "use_tool:search" -> [parsed |-> TRUE, name |-> "search"]
      [] line = "use_tool:boom" -> [parsed |-> TRUE, name |-> "boom"]
      [] line = "use_tool:nope" -> [parsed |-> TRUE, name |-> "nope"]
      [] OTHER -> [parsed |-> FALSE, name |-> ""]

\* await self.tools[tool_name].execute(**tool_params)
Execute(name) ==
    IF name = "search" THEN [raised |-> FALSE, value |-> "Tool result: hit"]
    ELSE [raised |-> TRUE, value |-> "Tool execution error: bang"]

\* as HandleLine, with an exception of the tool or of the parser leaving the
\* line out
HandleLineDroppingErrors(line, tools) ==
    IF StartsWithUseTool(line)
    THEN IF ~ToolCall(line).parsed THEN <<>>
         ELSE IF ToolCall(line).name \in tools
              THEN IF Execute(ToolCall(line).name).raised THEN <<>>
                   ELSE <<Execute(ToolCall(line).name).value>>
              ELSE <<"Tool 'nope' not found">>
    ELSE <<line>>

\* one turn of `for line in lines`: what is appended to result_lines
HandleLine(line, tools) ==
    IF StartsWithUseTool(line)
    THEN IF ~ToolCall(line).parsed THEN <<"Tool execution error: parse">>
         ELSE IF ToolCall(line).name \in tools
              THEN <<Execute(ToolCall(line).name).value>>
              ELSE <<"Tool 'nope' not found">>
    ELSE <<line>>

RECURSIVE HandleToolUsage(_, _)
\* LLMAgent._handle_tool_usage
HandleToolUsage(lines, tools) ==
    IF lines = <<>> THEN <<>>
    ELSE HandleToolUsage(SubSeq(lines, 1, Len(lines) - 1), tools)
            \o HandleLine(lines[Len(lines)], tools)

\* lines 261-262
ReplyContent(a, text) ==
    IF MentionsUseTool(text) THEN HandleToolUsage(text, AgentTools(a)) ELSE text

ProcessResult(t, a, msg, br) ==
    IF Succeeds(br)
    THEN Message(t, ReplyContent(a, br.text), a, msg.sender)
    ELSE Message(t, ErrorContent(br), a, msg.sender)

\* as StateAfter, with a finally clause that sets COMPLETED unconditionally
StateAfterAlwaysCompleted(s, br) == "completed"

\* except: self.state = FAILED;  finally: if self.state != FAILED: COMPLETED
StateAfter(s, br) ==
    LET afterExcept == IF Succeeds(br) THEN s ELSE "failed"
    IN  IF afterExcept # "failed" THEN "completed" ELSE afterExcept

\* lines 264-265 on the success path, line 277 in the except clause, line
\* 286 in the finally clause
MetricsAfter(m, br) ==
    [m EXCEPT
        !.success_count = IF Accepted(br) THEN @ + 1 ELSE @,
        !.total_tokens = IF Succeeds(br) THEN @ + br.tokens ELSE @,
        !.error_count = IF Succeeds(br) THEN @ ELSE @ + 1,
        !.execution_count = @ + 1]

Respond ==
    \E t \in DOMAIN tasks :
        /\ tasks[t].pc = "calling"
        /\ LET a == tasks[t].agent
               msg == tasks[t].msg
           IN \E br \in BackendOutcomes(msg.content) :
                /\ tasks' = [tasks EXCEPT ![t].pc = "done", ![t].response = br,
                                          ![t].result = ProcessResult(t, a, msg, br)]
                /\ state' = [state EXCEPT ![a] = StateAfter(@, br)]
                /\ metrics' = [metrics EXCEPT ![a] = MetricsAfter(@, br)]
        /\ UNCHANGED <<registry, event, waiters, ready, orch, sessions>>
        /\ UNCHANGED others

(***************************************************************************)
(* Agents driven directly: process, pause and resume from any caller.      *)
(***************************************************************************)
NextAgent ==
    \/ \E a \in Pausable : Pause(a)
    \/ \E a \in Pausable : Resume(a)
    \/ \E a \in Pausable, msg \in InputMessages : Process(a, msg)
    \/ WakeTask
    \/ Respond

SpecAgent == Init /\ [][NextAgent]_vars

\* the event loop runs every scheduled callback, and a blocking request returns
FairSpecAgent == SpecAgent /\ WF_vars(WakeTask) /\ WF_vars(Respond)

(***************************************************************************)
(* An agent with tools, called by one caller that awaits each call before  *)
(* it makes the next: `reply = await agent.process(msg)`.                  *)
(***************************************************************************)
ProcessNext(a, msg) ==
    /\ \A t \in DOMAIN tasks : tasks[t].pc = "returned"
    /\ Process(a, msg)

\* the caller's await returns: it has the Message, the coroutine is gone
Collect ==
    /\ \E t \in DOMAIN tasks :
          /\ tasks[t].pc = "done"
          /\ tasks' = [tasks EXCEPT ![t] = Released(@)]
    /\ UNCHANGED <<registry, state, event, waiters, metrics, ready, orch, sessions>>
    /\ UNCHANGED others

NextTools ==
    \/ \E a \in Pausable, msg \in ToolMessages \cup InputMessages : ProcessNext(a, msg)
    \/ Respond
    \/ Collect

SpecTools == Init /\ [][NextTools]_vars

(***************************************************************************)
(* Properties of the agent state machine (SpecAgent, FairSpecAgent)        *)
(***************************************************************************)
TaskIds == 1..(MaxCalls + 1)

\* invocation t returns in this step
Returns(t) ==
    /\ t \in DOMAIN tasks
    /\ tasks[t].pc # "done"
    /\ tasks'[t].pc = "done"

\* invocation t is made in this step
Called(t) == t \notin DOMAIN tasks /\ t \in DOMAIN tasks'

\* resume() is called on agent a in this step while it is paused
Resumed(a) == ~event[a] /\ event'[a]

\* a process() call made while the agent is paused waits: it stays suspended
\* in front of the backend request for as long as resume() is not called
C1_WaitsForResume ==
    \A t \in TaskIds :
        /\ Called(t) /\ ~event[tasks'[t].agent] => tasks'[t].pc = "waiting"
        /\ t \in DOMAIN tasks /\ tasks[t].pc = "waiting" =>
              \/ tasks'[t].pc = "waiting" /\ tasks'[t].result = NoMsg
              \/ Resumed(tasks[t].agent) /\ tasks'[t].pc = "woken"

\* the call that returns answers the sender of its message and leaves the
\* agent completed or failed
C1_ReturnsToSender ==
    \A t \in TaskIds :
        Returns(t) =>
            /\ tasks'[t].result.recipient = tasks[t].msg.sender
            /\ state'[tasks[t].agent] \in {"completed", "failed"}

\* C1: after pause(), a process(msg) call neither completes nor calls the
\* backend until resume() is called; once resumed it eventually returns a
\* Message addressed to msg.sender with the agent completed or failed, never
\* paused.
C1_PauseThenProcess ==
    /\ [][C1_WaitsForResume /\ C1_ReturnsToSender]_vars
    /\ \A t \in TaskIds :
          (t \in DOMAIN tasks /\ tasks[t].pc = "woken")
              ~> (/\ t \in DOMAIN tasks
                  /\ tasks[t].pc = "done"
                  /\ tasks[t].result.recipient = tasks[t].msg.sender)

\* a call that waited on a paused agent has returned to a sender other than
\* the default one, and the agent is completed or failed
C1_Witness ==
    \E t \in DOMAIN tasks :
        /\ tasks[t].blocked
        /\ tasks[t].pc = "done"
        /\ tasks[t].msg.sender = "peer"
        /\ tasks[t].result.recipient = "peer"
        /\ state[tasks[t].agent] \in {"completed", "failed"}

\* the step is taken by a process() call on agent a that goes on after
\* pause_event.wait() or after the backend request
ProcessStep(t) ==
    /\ t \in DOMAIN tasks
    /\ tasks[t].pc \in {"waiting", "woken", "calling"}
    /\ tasks'[t].pc \in {"calling", "done"}
    /\ tasks'[t].pc # tasks[t].pc

\* C2: a process(msg) call pending on a paused agent is never dropped or
\* reordered: while the agent is paused the call changes no agent state, each
\* pending call handles the message it was called with, and calls pending on
\* one agent proceed in the order in which they started waiting.
C2_PendingCallsBlockWhilePaused ==
    [][\A t \in TaskIds :
          /\ ProcessStep(t) /\ tasks[t].blocked /\ ~event[tasks[t].agent] =>
                /\ state'[tasks[t].agent] = state[tasks[t].agent]
                /\ metrics'[tasks[t].agent] = metrics[tasks[t].agent]
          /\ t \in DOMAIN tasks => tasks'[t].msg = tasks[t].msg /\ tasks'[t].agent = tasks[t].agent
          /\ \A u \in TaskIds :
                (/\ t \in DOMAIN tasks /\ u \in DOMAIN tasks
                 /\ tasks[t].agent = tasks[u].agent
                 /\ tasks[t].blocked /\ tasks[u].blocked /\ t < u
                 /\ tasks'[u].pc \in {"calling", "done"})
                    => tasks'[t].pc \in {"calling", "done"}]_vars

\* C3: a backend failure (transport error or non-success status) is never
\* raised by LLMAgent.process: the call returns a new Message with an error
\* description, sent by the agent to the original sender, and the agent is
\* failed when the call returns.
C3_BackendFailureIsReported ==
    [][\A t \in TaskIds :
          (t \in DOMAIN tasks /\ tasks[t].pc = "calling" /\ tasks'[t].pc # "calling"
           /\ (tasks'[t].response.raised \/ tasks'[t].response.status # 200)) =>
              LET r == tasks'[t].result
                  a == tasks[t].agent
              IN  /\ tasks'[t].pc = "done"
                  /\ r.id # tasks[t].msg.id
                  /\ Head(r.content) = "Error:"
                  /\ Contains(r.content, tasks'[t].response.text)
                  /\ r.sender = a
                  /\ r.recipient = tasks[t].msg.sender
                  /\ state'[a] = "failed"
                  /\ orch' = orch]_vars

\* both kinds of backend failure have been reported by returned calls
C3_Witness ==
    \E t, u \in DOMAIN tasks :
        /\ tasks[t].pc = "done" /\ tasks[t].response.raised
        /\ tasks[u].pc = "done" /\ ~tasks[u].response.raised /\ tasks[u].response.status = 500
        /\ tasks[u].msg.sender = "peer" /\ tasks[u].result.recipient = "peer"
        /\ state[tasks[u].agent] = "failed"

(***************************************************************************)
(* AgentOrchestrator                                                       *)
(***************************************************************************)
SeqsUpTo(S, n) == UNION {[1..k -> S] : k \in 0..n}

IdLists == SeqsUpTo(AgentIds, MaxIds)

\* as Registered, without the `if agent_id in self.agents` test
RegisteredUnchecked(a) == TRUE

Registered(a) == a \in Range(registry)

\* the ids of a list that `if agent_id in self.agents` lets through
RegisteredOf(ids) == SelectSeq(ids, Registered)

\* register_agent, for an id not registered yet and while no dispatch runs
RegisterAgent(a) ==
    /\ ~Blocked
    /\ orch.pc = "idle"
    /\ ~Registered(a)
    /\ registry' = Append(registry, a)
    /\ UNCHANGED <<state, event, waiters, metrics, tasks, ready, orch, sessions>>
    /\ UNCHANGED others

\* as InvokeInline, handing on the message the orchestrator was called with
InvokeInlineOriginal(a, msg, o) ==
    /\ Enter(Len(tasks) + 1, Append(tasks, NewTask(a, o.message, "inline")))
    /\ orch' = [o EXCEPT !.pc = "await", !.task = Len(tasks) + 1]
    /\ UNCHANGED <<registry, event, ready, sessions>>

\* the orchestrator awaits self.agents[a].process(msg) inside its own task
InvokeInline(a, msg, o) ==
    /\ Enter(Len(tasks) + 1, Append(tasks, NewTask(a, msg, "inline")))
    /\ orch' = [o EXCEPT !.pc = "await", !.task = Len(tasks) + 1]
    /\ UNCHANGED <<registry, event, ready, sessions>>

Return(o, kind, value) ==
    [o EXCEPT !.pc = "done", !.returns = kind, !.ret = value]

\* run_parallel_agents up to `await asyncio.gather(...)`: one task per
\* registered id, scheduled in list order
StartParallel(o, ids, msg) ==
    LET regs == RegisteredOf(ids)
        n == Len(tasks)
    IN  /\ tasks' = tasks \o [k \in 1..Len(regs) |-> NewTask(regs[k], msg, "task")]
        /\ ready' = ready \o [k \in 1..Len(regs) |-> n + k]
        /\ orch' = [o EXCEPT !.pc = "gather", !.agent_ids = ids, !.message = msg,
                             !.tasks = [k \in 1..Len(regs) |-> n + k]]

StartSequential(o, ids, msg) ==
    [o EXCEPT !.pc = "sequential", !.agent_ids = ids, !.message = msg,
              !.current_message = msg, !.i = 1]

\* as StartLoop, with one pass too many (range(max_iterations + 1))
StartLoopOneMore(o, ids, msg, maxit) ==
    [o EXCEPT !.pc = "loop", !.agent_ids = ids, !.message = msg,
              !.max_iterations = maxit, !.current_message = msg,
              !.results = <<>>, !.iteration_results = <<>>, !.it = -1, !.i = 1]

StartLoop(o, ids, msg, maxit) ==
    [o EXCEPT !.pc = "loop", !.agent_ids = ids, !.message = msg,
              !.max_iterations = maxit, !.current_message = msg,
              !.results = <<>>, !.iteration_results = <<>>, !.it = 0, !.i = 1]

RunParallelAgents(ids, msg) ==
    /\ ~Blocked
    /\ orch.pc = "idle"
    /\ StartParallel([orch EXCEPT !.entry = "run_parallel_agents"], ids, msg)
    /\ UNCHANGED <<registry, state, event, waiters, metrics, sessions>>
    /\ UNCHANGED others

RunSequentialAgents(ids, msg) ==
    /\ ~Blocked
    /\ orch.pc = "idle"
    /\ orch' = StartSequential([orch EXCEPT !.entry = "run_sequential_agents"], ids, msg)
    /\ UNCHANGED <<registry, state, event, waiters, metrics, tasks, ready, sessions>>
    /\ UNCHANGED others

RunLoopAgents(ids, msg, maxit) ==
    /\ ~Blocked
    /\ orch.pc = "idle"
    /\ Len(RegisteredOf(ids)) * maxit <= LoopBudget
    /\ orch' = StartLoop([orch EXCEPT !.entry = "run_loop_agents"], ids, msg, maxit)
    /\ UNCHANGED <<registry, state, event, waiters, metrics, tasks, ready, sessions>>
    /\ UNCHANGED others

\* as IsMessageResult, keeping whatever gather() collected
IsAnyResult(t) == TRUE

\* return [r for r in results if isinstance(r, Message)]
IsMessageResult(t) == tasks[t].pc = "done"

\* as Finished, for a gather() that does not wait for suspended tasks
FinishedOrSuspended(t) == tasks[t].pc \in {"done", "raised", "waiting"}

\* the awaited process() call has returned or raised
Finished(t) == tasks[t].pc \in {"done", "raised"}

\* as Converged, looking at iteration_results[0]
ConvergedFirst(ir) == Len(ir) > 0 /\ Contains(ir[1].content, Sentinel)

\* if len(iteration_results) > 0 and "CONVERGED" in iteration_results[-1].content
Converged(ir) == Len(ir) > 0 /\ Contains(ir[Len(ir)].content, Sentinel)

\* as GatherResults, with the results in the order in which the tasks
\* finished (asyncio.as_completed): a task that had to wait on pause
\* finishes after the tasks that did not
GatherResultsAsCompleted(ok) ==
    LET early == SelectSeq(ok, LAMBDA t : ~tasks[t].blocked)
        late == SelectSeq(ok, LAMBDA t : tasks[t].blocked)
    IN  [k \in DOMAIN ok |-> tasks[(early \o late)[k]].result]

\* asyncio.gather returns the results in the order of the tasks it was
\* given; line 336 filters that list
GatherResults(ok) == [k \in DOMAIN ok |-> tasks[ok[k]].result]

Gather ==
    /\ ~Blocked
    /\ orch.pc = "gather"
    /\ \A k \in DOMAIN orch.tasks : Finished(orch.tasks[k])
    /\ orch' = Return(orch, "list", GatherResults(SelectSeq(orch.tasks, IsMessageResult)))
    /\ UNCHANGED <<registry, state, event, waiters, metrics, tasks, ready, sessions>>
    /\ UNCHANGED others

\* one turn of `for agent_id in agent_ids` of run_sequential_agents
SequentialStep ==
    /\ ~Blocked
    /\ orch.pc = "sequential"
    /\ IF orch.i > Len(orch.agent_ids)
       THEN /\ orch' = Return(orch, "message", <<orch.current_message>>)
            /\ UNCHANGED <<registry, state, event, waiters, metrics, tasks, ready, sessions>>
       ELSE IF ~Registered(orch.agent_ids[orch.i])
       THEN /\ orch' = [orch EXCEPT !.i = @ + 1]
            /\ UNCHANGED <<registry, state, event, waiters, metrics, tasks, ready, sessions>>
       ELSE InvokeInline(orch.agent_ids[orch.i], orch.current_message,
                         [orch EXCEPT !.i = @ + 1])
    /\ UNCHANGED others

\* one turn of the inner loop of run_loop_agents, or the end of a pass
LoopStep ==
    /\ ~Blocked
    /\ orch.pc = "loop"
    /\ IF orch.it >= orch.max_iterations
       THEN /\ orch' = Return(orch, "list", orch.results)
            /\ UNCHANGED <<registry, state, event, waiters, metrics, tasks, ready, sessions>>
       ELSE IF orch.i > Len(orch.agent_ids)
       THEN /\ LET ir == orch.iteration_results
                   all == orch.results \o ir
               IN  IF Converged(ir)
                   THEN orch' = Return([orch EXCEPT !.results = all], "list", all)
                   ELSE orch' = [orch EXCEPT !.results = all, !.iteration_results = <<>>,
                                             !.it = @ + 1, !.i = 1]
            /\ UNCHANGED <<registry, state, event, waiters, metrics, tasks, ready, sessions>>
       ELSE IF ~Registered(orch.agent_ids[orch.i])
       THEN /\ orch' = [orch EXCEPT !.i = @ + 1]
            /\ UNCHANGED <<registry, state, event, waiters, metrics, tasks, ready, sessions>>
       ELSE InvokeInline(orch.agent_ids[orch.i], orch.current_message,
                         [orch EXCEPT !.i = @ + 1])
    /\ UNCHANGED others

(***************************************************************************)
(* MultiAgentSystem.process_message and the session store                  *)
(***************************************************************************)
Modes == {"single", "parallel", "sequential", "loop"}

\* InMemorySessionService.create_session
CreateSession == [exists |-> TRUE, messages |-> <<>>, episodes |-> <<>>]

\* as StoreMessage, with a session made anew by every call
StoreMessageRecreating(ss, s, msg) ==
    [ss EXCEPT ![s] = [CreateSession EXCEPT
        !.messages = Append(@, msg),
        !.episodes = Append(@, [type |-> "user_message", content |-> msg.content,
                                agent_id |-> ""])]]

\* lines 455-469: the session is created when missing, the message logged
\* and a user_message episode added to the memory bank
StoreMessage(ss, s, msg) ==
    LET session == IF ss[s].exists THEN ss[s] ELSE CreateSession
    IN  [ss EXCEPT ![s] = [session EXCEPT
            !.messages = Append(@, msg),
            !.episodes = Append(@, [type |-> "user_message", content |-> msg.content,
                                    agent_id |-> ""])]]

ProcessMessage(s, msg, mode) ==
    /\ ~Blocked
    /\ orch.pc = "idle"
    /\ mode = "loop" => Len(registry) * DefaultMaxIterations <= LoopBudget
    /\ sessions' = StoreMessage(sessions, s, msg)
    /\ LET o == [orch EXCEPT !.entry = "process_message", !.mode = mode, !.session = s]
       IN  CASE mode = "parallel" ->
                    /\ StartParallel(o, registry, msg)
                    /\ UNCHANGED <<registry, state, event, waiters, metrics>>
             [] mode = "sequential" ->
                    /\ orch' = StartSequential(o, registry, msg)
                    /\ UNCHANGED <<registry, state, event, waiters, metrics, tasks, ready>>
             [] mode = "loop" ->
                    /\ orch' = StartLoop(o, registry, msg, DefaultMaxIterations)
                    /\ UNCHANGED <<registry, state, event, waiters, metrics, tasks, ready>>
             [] OTHER ->
                    /\ orch' = [o EXCEPT !.pc = "single", !.message = msg]
                    /\ UNCHANGED <<registry, state, event, waiters, metrics, tasks, ready>>
    /\ UNCHANGED others

\* as NoAgentsMessage, without a sender
NoAgentsMessageUnsigned(id) == Message(id, <<"No agents available">>, "", "")

\* Message(content="No agents available", sender="system")
NoAgentsMessage(id) == Message(id, <<"No agents available">>, "system", "")

\* lines 483-498: the first registered agent, or the "No agents available" reply
SingleStep ==
    /\ ~Blocked
    /\ orch.pc = "single"
    /\ IF registry # <<>>
       THEN InvokeInline(registry[1], orch.message, orch)
       ELSE /\ orch' = Return(orch, "message", <<NoAgentsMessage(Len(tasks) + 1)>>)
            /\ UNCHANGED <<registry, state, event, waiters, metrics, tasks, ready, sessions>>
    /\ UNCHANGED others

\* as NextInput, with the Message of a failed call left out of the chain
NextInputSkippingErrors(current_message, result) ==
    IF result.content # <<>> /\ Head(result.content) = "Error:"
    THEN current_message ELSE result

\* current_message = await self.agents[agent_id].process(current_message)
\* (line 344), current_message = result (line 359): whatever Message the
\* call returned
NextInput(current_message, result) == result

\* the awaited process() call has returned or raised: the orchestrator goes
\* on after its `await`; an exception is not caught by these entry points
Continue ==
    /\ ~Blocked
    /\ orch.pc = "await"
    /\ Finished(orch.task)
    /\ LET t == tasks[orch.task]
           result == t.result
       IN  IF t.pc = "raised"
           THEN /\ orch' = [orch EXCEPT !.pc = "raised"]
                /\ UNCHANGED sessions
           ELSE CASE orch.entry = "run_sequential_agents" \/ orch.mode = "sequential" ->
                        /\ orch' = [orch EXCEPT !.pc = "sequential",
                                                !.current_message = NextInput(@, result)]
                        /\ UNCHANGED sessions
                  [] orch.entry = "run_loop_agents" \/ orch.mode = "loop" ->
                        /\ orch' = [orch EXCEPT !.pc = "loop",
                                                !.current_message = NextInput(@, result),
                                                !.iteration_results = Append(@, result)]
                        /\ UNCHANGED sessions
                  [] OTHER ->
                        /\ sessions' = [sessions EXCEPT ![orch.session].episodes =
                               Append(@, [type |-> "agent_response", content |-> result.content,
                                          agent_id |-> t.agent])]
                        /\ orch' = Return(orch, "message", <<result>>)
    /\ tasks' = [tasks EXCEPT ![orch.task] = Released(@)]
    /\ UNCHANGED <<registry, state, event, waiters, metrics, ready>>
    /\ UNCHANGED others

\* the event loop starts a task made by asyncio.create_task
StartTask ==
    /\ ~Blocked
    /\ ready # <<>>
    /\ tasks[Head(ready)].pc = "new"
    /\ Enter(Head(ready), tasks)
    /\ ready' = Tail(ready)
    /\ UNCHANGED <<registry, event, orch, sessions>>
    /\ UNCHANGED others


(***************************************************************************)
(* Specifications: the orchestrator's entry points called with any list of *)
(* agent ids (one topology at a time, and all three), and the system       *)
(* driven through MultiAgentSystem.process_message.                        *)
(***************************************************************************)
Environment ==
    \/ \E a \in AgentIds : RegisterAgent(a)
    \/ \E a \in Range(registry) \cap Pausable : Pause(a)
    \/ \E a \in Range(registry) \cap Pausable : Resume(a)

CallParallel == \E ids \in IdLists, msg \in ChatMessages : RunParallelAgents(ids, msg)

CallSequential == \E ids \in IdLists, msg \in ChatMessages : RunSequentialAgents(ids, msg)

CallLoop ==
    \E ids \in IdLists, msg \in ChatMessages, maxit \in 1..LoopBudget :
        RunLoopAgents(ids, msg, maxit)

CallProcessMessage ==
    \E s \in SessionIds, msg \in ChatMessages, mode \in Modes : ProcessMessage(s, msg, mode)

NextParallel ==
    \/ Environment
    \/ CallParallel
    \/ Gather
    \/ StartTask
    \/ WakeTask
    \/ Respond

NextSequential ==
    \/ Environment
    \/ CallSequential
    \/ SequentialStep
    \/ Continue
    \/ WakeTask
    \/ Respond

NextLoop ==
    \/ Environment
    \/ CallLoop
    \/ LoopStep
    \/ Continue
    \/ WakeTask
    \/ Respond

NextOrch ==
    \/ Environment
    \/ CallParallel
    \/ CallSequential
    \/ CallLoop
    \/ SequentialStep
    \/ LoopStep
    \/ Continue
    \/ Gather
    \/ StartTask
    \/ WakeTask
    \/ Respond

Next ==
    \/ Environment
    \/ CallProcessMessage
    \/ SingleStep
    \/ SequentialStep
    \/ LoopStep
    \/ Continue
    \/ Gather
    \/ StartTask
    \/ WakeTask
    \/ Respond

SpecParallel == Init /\ [][NextParallel]_vars

SpecSequential == Init /\ [][NextSequential]_vars

SpecLoop == Init /\ [][NextLoop]_vars

SpecOrch == Init /\ [][NextOrch]_vars

Spec == Init /\ [][Next]_vars

\* the event loop runs every scheduled callback and every coroutine that can
\* go on, and a blocking request returns
FairSpecParallel ==
    SpecParallel /\ WF_vars(StartTask) /\ WF_vars(WakeTask) /\ WF_vars(Respond)
                 /\ WF_vars(Gather)

(***************************************************************************)
(* Properties of the orchestrator                                          *)
(***************************************************************************)
Last(q) == q[Len(q)]

InvokedAgents == [k \in DOMAIN tasks |-> tasks[k].agent]

\* the ids of a list that are keys of self.agents
InRegistry(ids) == SelectSeq(ids, LAMBDA a : a \in Range(registry))

SequentialRun == orch.entry = "run_sequential_agents"

ParallelRun == orch.entry = "run_parallel_agents"

LoopRun == orch.entry = "run_loop_agents"

\* the registered agents are invoked in list order, one after the other, and
\* the call returns the Message it holds last
C4_InListOrder ==
    SequentialRun =>
        LET R == InRegistry(orch.agent_ids) IN
        /\ Len(tasks) <= Len(R)
        /\ \A k \in DOMAIN tasks : tasks[k].agent = R[k]
        /\ \A k \in DOMAIN tasks : k < Len(tasks) => tasks[k].pc = "returned"
        /\ orch.pc = "done" =>
              /\ Len(tasks) = Len(R)
              /\ orch.returns = "message"
              /\ orch.ret = <<orch.current_message>>

\* a process() call gets the Message the orchestrator holds, which is the
\* initial message at first and changes only to what the last call returned
C4_HandsOn ==
    /\ \A t \in DOMAIN tasks' :
          Called(t) =>
              /\ tasks'[t].msg = orch.current_message
              /\ t = 1 => orch.current_message = orch.message
    /\ (orch.pc # "idle" /\ orch'.current_message # orch.current_message) =>
          LET t == Len(tasks) IN
          /\ t > 0
          /\ tasks[t].pc = "done"
          /\ tasks'[t].pc = "returned"
          /\ orch'.current_message = tasks[t].result

\* C4: run_sequential_agents invokes the registered agents of the list one
\* at a time in list order, agent i+1 starting only after agent i returned
\* and receiving exactly the Message agent i returned, and returns only the
\* last agent's Message.
C4_SequentialPipeline ==
    /\ []C4_InListOrder
    /\ [][SequentialRun => C4_HandsOn]_vars

\* an uppercasing agent followed by one that appends "!" turned "hi" into "HI!"
C4_Witness ==
    /\ SequentialRun
    /\ orch.pc = "done"
    /\ orch.agent_ids = <<"a1", "a2">>
    /\ orch.message.content = <<"h", "i">>
    /\ orch.ret[1].content = <<"H", "I", "!">>

\* C5: run_parallel_agents never raises because a process() raised; the
\* returned list holds exactly one Message for each call that returned
\* normally and nothing for a call that raised.
C5_PartialFailure ==
    ParallelRun =>
        /\ orch.pc # "raised"
        /\ orch.pc = "done" =>
              LET ok == {t \in Range(orch.tasks) : tasks[t].pc = "done"} IN
              /\ orch.returns = "list"
              /\ Len(orch.ret) = Cardinality(ok)
              /\ \A t \in ok : \E j \in DOMAIN orch.ret : orch.ret[j] = tasks[t].result
              /\ \A j \in DOMAIN orch.ret : orch.ret[j].id \in ok

\* three dispatched calls of which one raised gave exactly two responses
C5_Witness ==
    /\ ParallelRun
    /\ orch.pc = "done"
    /\ Len(orch.tasks) = 3
    /\ Cardinality({t \in Range(orch.tasks) : tasks[t].pc = "raised"}) = 1
    /\ Len(orch.ret) = 2

\* every registered id of the list has its own task, all tasks get the same
\* message, and the call has not returned while one of them is unfinished
C6_JoinsAll ==
    (ParallelRun /\ orch.pc \in {"gather", "done"}) =>
        /\ [k \in DOMAIN orch.tasks |-> tasks[orch.tasks[k]].agent] = InRegistry(orch.agent_ids)
        /\ \A t \in Range(orch.tasks) : tasks[t].msg = orch.message
        /\ orch.pc = "done" =>
              \A t \in Range(orch.tasks) : tasks[t].pc \in {"done", "raised"}

\* C6: run_parallel_agents hands the same message to every registered agent
\* of the list as concurrent tasks and returns only after every task has
\* returned or raised, never while one is running or blocked on pause; once
\* all have finished it returns.
C6_ParallelJoin ==
    /\ []C6_JoinsAll
    /\ (ParallelRun /\ orch.pc = "gather"
            /\ \A t \in Range(orch.tasks) : tasks[t].pc \in {"done", "raised"})
          ~> (orch.pc = "done")

\* the call returned after a task that was blocked on pause and another task
C6_Witness ==
    /\ ParallelRun
    /\ orch.pc = "done"
    /\ Len(orch.tasks) >= 2
    /\ \E t \in Range(orch.tasks) : tasks[t].blocked /\ tasks[t].pc = "done"

SentinelSeen ==
    \E k \in DOMAIN (orch.results \o orch.iteration_results) :
        Contains((orch.results \o orch.iteration_results)[k].content, Sentinel)

\* C7 as claimed: once any agent has produced a response containing
\* "CONVERGED", no further process() call is made in that loop run, for
\* agent lists of any length.
C7_StopsAtFirstSentinel ==
    [][(LoopRun /\ SentinelSeen) => tasks' = tasks]_vars

\* C7 as amended: the sentinel is looked for at the end of each pass, in the
\* last response of the pass only; once a pass has ended with a last response
\* containing "CONVERGED" the run has returned and no further process() call
\* is made, and over a list with one registered agent no call follows a
\* response containing the sentinel.
C7_StopsAfterConvergedPass ==
    /\ [](LoopRun /\ Len(orch.results) > 0
              /\ Contains(Last(orch.results).content, Sentinel)
            => orch.pc = "done")
    /\ [][(LoopRun /\ orch.pc = "done") => tasks' = tasks]_vars
    /\ [][(LoopRun /\ Len(InRegistry(orch.agent_ids)) = 1 /\ SentinelSeen)
            => tasks' = tasks]_vars

\* the first response of a two-agent pass contained the sentinel, the second
\* agent was still called, and the run stopped after that pass, one pass early
C7_Witness ==
    /\ LoopRun
    /\ orch.pc = "done"
    /\ Len(InRegistry(orch.agent_ids)) = 2
    /\ orch.max_iterations = 2
    /\ Len(tasks) = 2
    /\ Len(orch.results) = 2
    /\ Contains(orch.results[1].content, Sentinel)
    /\ Contains(orch.results[2].content, Sentinel)

\* passes and calls stay within max_iterations, and the returned list is
\* every response produced, in the order produced
C8_Bounded ==
    LoopRun =>
        LET n == Len(InRegistry(orch.agent_ids)) IN
        /\ orch.it <= orch.max_iterations
        /\ Len(tasks) <= orch.max_iterations * n
        /\ orch.pc = "done" =>
              /\ orch.returns = "list"
              /\ orch.ret = orch.results
              /\ Len(orch.ret) = Cardinality({t \in DOMAIN tasks : tasks[t].pc = "returned"})
              /\ \A j \in DOMAIN orch.ret : orch.ret[j].id = j
              /\ n = 1 =>
                    /\ Len(orch.ret) <= orch.max_iterations
                    /\ \A j \in DOMAIN orch.ret :
                          Contains(orch.ret[j].content, Sentinel) => j = Len(orch.ret)
                    /\ (\A j \in DOMAIN orch.ret : ~Contains(orch.ret[j].content, Sentinel))
                          => Len(orch.ret) = orch.max_iterations

\* every step of the loop either returns or moves on in the pass or to the
\* next pass
C8_Progress ==
    (LoopRun /\ orch.pc = "loop" /\ orch' # orch) =>
        \/ orch'.pc \in {"done", "raised"}
        \/ orch'.it * (Len(orch.agent_ids) + 2) + orch'.i
              > orch.it * (Len(orch.agent_ids) + 2) + orch.i

\* C8: run_loop_agents always terminates after at most max_iterations passes
\* over the agent list; the returned list holds every response produced, in
\* the order produced; with one agent and max_iterations 5 that is between 1
\* and 5 responses, fewer than 5 only when the last one contains the
\* sentinel, and exactly max_iterations when none does.
C8_LoopTerminates ==
    /\ []C8_Bounded
    /\ [][C8_Progress]_vars

\* one agent, three passes allowed: the second response contained the
\* sentinel and the run returned the two responses
C8_Witness ==
    /\ LoopRun
    /\ orch.pc = "done"
    /\ Len(InRegistry(orch.agent_ids)) = 1
    /\ orch.max_iterations = 3
    /\ Len(orch.ret) = 2
    /\ ~Contains(orch.ret[1].content, Sentinel)
    /\ Contains(orch.ret[2].content, Sentinel)

\* only registered agents are invoked, in list order, whatever the list names
C9_OnlyRegistered ==
    orch.entry \in {"run_parallel_agents", "run_sequential_agents", "run_loop_agents"} =>
        LET R == InRegistry(orch.agent_ids)
            n == Len(R)
        IN  /\ \A t \in DOMAIN tasks : tasks[t].agent \in Range(registry)
            /\ ParallelRun => InvokedAgents = R
            /\ SequentialRun =>
                  /\ Len(tasks) <= n
                  /\ \A k \in DOMAIN tasks : tasks[k].agent = R[k]
                  /\ (orch.pc = "done" /\ n = 0) => orch.ret = <<orch.message>>
            /\ LoopRun =>
                  /\ \A k \in DOMAIN tasks : tasks[k].agent = R[((k - 1) % n) + 1]
                  /\ (orch.pc = "done" /\ n = 0) => orch.ret = <<>>

\* C9: the run_* methods silently skip ids that are not registered, invoke
\* only the registered ones, in list order, and raise only when an invoked
\* agent's process() raised; run_sequential_agents with nothing registered
\* returns the message it was given.
C9_SkipsUnregistered ==
    /\ []C9_OnlyRegistered
    /\ [][(orch.pc # "raised" /\ orch'.pc = "raised") =>
              /\ orch.pc = "await"
              /\ tasks[orch.task].pc = "raised"]_vars

\* a run over a list naming an unregistered id returned after invoking the
\* registered agent of the list
C9_Witness ==
    /\ orch.entry \in {"run_parallel_agents", "run_sequential_agents", "run_loop_agents"}
    /\ orch.pc = "done"
    /\ \E k \in DOMAIN orch.agent_ids : orch.agent_ids[k] \notin Range(registry)
    /\ \E k \in DOMAIN orch.agent_ids : orch.agent_ids[k] \in Range(registry)
    /\ Len(tasks) >= 1

SingleRun == orch.entry = "process_message" /\ orch.mode = "single"

\* in single mode at most the first registered agent is invoked, and what is
\* returned is that agent's Message, or the system's when there is no agent
C10_FirstAgentOnly ==
    SingleRun =>
        /\ Len(tasks) <= 1
        /\ \A t \in DOMAIN tasks : tasks[t].agent = registry[1]
        /\ registry = <<>> => orch.pc # "raised"
        /\ orch.pc = "done" =>
              /\ orch.returns = "message"
              /\ Len(orch.ret) = 1
              /\ IF registry = <<>>
                    THEN /\ tasks = <<>>
                         /\ orch.ret[1].content = <<"No agents available">>
                         /\ orch.ret[1].sender = "system"
                    ELSE /\ Len(tasks) = 1
                         /\ tasks[1].pc = "returned"
                         /\ orch.ret[1].id = 1
                         /\ orch.ret[1].sender = registry[1]

\* C10: process_message in mode "single" invokes exactly one agent, the
\* first registered one, with the message it was given, and returns that
\* agent's Message; with no agent registered it returns a Message from
\* "system" saying "No agents available" and invokes nothing.
C10_SingleMode ==
    /\ []C10_FirstAgentOnly
    /\ [][SingleRun => \A t \in DOMAIN tasks' :
                          Called(t) => tasks'[t].msg = orch.message]_vars

\* two agents are registered and the single-mode call returned after one call
C10_Witness ==
    /\ SingleRun
    /\ orch.pc = "done"
    /\ Len(registry) = 2
    /\ Len(tasks) = 1
    /\ orch.ret[1].sender = registry[1]

(***************************************************************************)
(* More properties of the agent state machine (SpecAgent)                  *)
(***************************************************************************)
\* the lifecycle steps of section "States": idle -> running -> {completed,
\* failed}, running <-> paused, and completed/failed -> running for the next
\* message
LifecycleSteps ==
    {<<"idle", "running">>, <<"running", "completed">>, <<"running", "failed">>,
     <<"running", "paused">>, <<"paused", "running">>,
     <<"completed", "running">>, <<"failed", "running">>}

\* C11: every change of an agent's lifecycle state, over any sequence of
\* process, pause and resume calls, is one of idle->running,
\* running->completed, running->failed, running->paused, paused->running, or
\* the reuse step from completed/failed to running.
C11_LifecycleStepsOnly ==
    [][\A a \in AgentIds :
          state'[a] # state[a] => <<state[a], state'[a]>> \in LifecycleSteps]_vars

\* C12: every process call that returns increments execution_count by
\* exactly one and exactly one of success_count and error_count by one
\* (success_count when it ends in completed, error_count when it ends in
\* failed), so execution_count = success_count + error_count after any
\* sequence of returned calls.
C12_CountsEveryCallOnce ==
    /\ [][\A t \in TaskIds :
             Returns(t) =>
                 LET a == tasks[t].agent
                     m == metrics[a]
                     n == metrics'[a]
                 IN  /\ n.execution_count = m.execution_count + 1
                     /\ (n.success_count - m.success_count)
                           + (n.error_count - m.error_count) = 1
                     /\ n.success_count = m.success_count + 1 <=> state'[a] = "completed"
                     /\ n.error_count = m.error_count + 1 <=> state'[a] = "failed"]_vars
    /\ [](~Blocked =>
             \A a \in AgentIds :
                 metrics[a].execution_count
                     = metrics[a].success_count + metrics[a].error_count)

\* the Message a successful call returns for the backend text: every directive
\* line replaced, every other line kept
C13_LinesReplacedInPlace(text, content) ==
    /\ Len(content) = Len(text)
    /\ \A k \in DOMAIN text :
          content[k] =
              CASE text[k] = "use_tool:search" -> "Tool result: hit"
                [] text[k] = "use_tool:boom" -> "Tool execution error: bang"
                [] text[k] = "use_tool:nope" -> "Tool 'nope' not found"
                [] text[k] = "use_tool:{bad" -> "Tool execution error: parse"
                [] OTHER -> text[k]

\* C13: a capability error never fails the agent: in a successful backend
\* reply every directive line 'use_tool:<json>' is replaced in place by the
\* tool's result when the tool is registered, by a 'not found' notice when it
\* is not, and by an error notice when the directive does not parse or the
\* tool raises; every other line is kept unchanged and in order, later
\* directive lines are still processed, and the call ends in completed with
\* success_count incremented.
C13_CapabilityErrorsAreInline ==
    [][\A t \in TaskIds :
          (Returns(t) /\ IsLLM(tasks[t].agent)
             /\ ~tasks'[t].response.raised /\ tasks'[t].response.status = 200
             /\ tasks'[t].response.usage_ok) =>
              LET a == tasks[t].agent IN
              /\ C13_LinesReplacedInPlace(tasks'[t].response.text, tasks'[t].result.content)
              /\ tasks'[t].result.sender = a
              /\ state'[a] = "completed"
              /\ metrics'[a].success_count = metrics[a].success_count + 1
              /\ metrics'[a].error_count = metrics[a].error_count]_vars

\* a reply whose first line names a tool that raises and whose second line
\* names a tool that works came back with both lines replaced, completed
C13_Witness ==
    \E t \in DOMAIN tasks :
        /\ tasks[t].pc = "done"
        /\ tasks[t].response.text = <<"use_tool:boom", "use_tool:search">>
        /\ tasks[t].result.content = <<"Tool execution error: bang", "Tool result: hit">>
        /\ state[tasks[t].agent] = "completed"
        /\ metrics[tasks[t].agent].success_count >= 1

(***************************************************************************)
(* A2AProtocol: subscribe, publish, get_messages.  publish is a coroutine   *)
(* without an await in it, so each call runs as one step.                  *)
(***************************************************************************)
A2ACall(op, agent, topic, message, ret) ==
    [op |-> op, agent |-> agent, topic |-> topic, message |-> message, ret |-> ret]

\* as Subscribed, for a subscribe that looks whether the agent is there
SubscribedOnce(subscribers, agent_id) ==
    IF \E k \in DOMAIN subscribers : subscribers[k] = agent_id
    THEN subscribers ELSE Append(subscribers, agent_id)

\* self.subscriptions[topic].append(agent_id)
Subscribed(subscribers, agent_id) == Append(subscribers, agent_id)

\* lines 375-378
Subscribe(agent_id, topic) ==
    /\ a2a.calls < MaxA2ACalls
    /\ a2a' = [a2a EXCEPT
                  !.subscriptions[topic] = Subscribed(@, agent_id),
                  !.call = A2ACall("subscribe", agent_id, topic, NoMsg, <<>>),
                  !.calls = @ + 1]
    /\ UNCHANGED <<core, obs, mon>>

RECURSIVE Deliver(_, _, _)
\* for agent_id in self.subscriptions[topic]: self.message_queue[agent_id].append(message)
Deliver(queue, subscribers, message) ==
    IF subscribers = <<>> THEN queue
    ELSE Deliver([queue EXCEPT ![Head(subscribers)] = Append(@, message)],
                 Tail(subscribers), message)

\* lines 380-385
Publish(topic, message) ==
    /\ a2a.calls < MaxA2ACalls
    /\ a2a' = [a2a EXCEPT
                  !.message_queue = Deliver(@, a2a.subscriptions[topic], message),
                  !.call = A2ACall("publish", "", topic, message, <<>>),
                  !.calls = @ + 1]
    /\ UNCHANGED <<core, obs, mon>>

\* as Cleared, for a get_messages that forgets to clear the mailbox
Kept(queue, agent_id) == queue

\* self.message_queue[agent_id] = []
Cleared(queue, agent_id) == [queue EXCEPT ![agent_id] = <<>>]

\* lines 387-390
GetMessages(agent_id) ==
    /\ a2a.calls < MaxA2ACalls
    /\ a2a' = [a2a EXCEPT
                  !.message_queue = Cleared(@, agent_id),
                  !.call = A2ACall("get_messages", agent_id, "", NoMsg,
                                   a2a.message_queue[agent_id]),
                  !.calls = @ + 1]
    /\ UNCHANGED <<core, obs, mon>>

NextA2A ==
    \/ \E a \in AgentIds, t \in Topics : Subscribe(a, t)
    \/ \E t \in Topics, m \in InputMessages : Publish(t, m)
    \/ \E a \in AgentIds : GetMessages(a)

SpecA2A == Init /\ [][NextA2A]_vars

(***************************************************************************)
(* Properties of the A2A channel (SpecA2A)                                 *)
(***************************************************************************)
\* this step is a call of op on the channel
A2AStep(op) == a2a'.calls = a2a.calls + 1 /\ a2a'.call.op = op

Mailbox(a) == a2a.message_queue[a]

IsPrefix(p, q) == Len(p) <= Len(q) /\ SubSeq(q, 1, Len(p)) = p

\* get_messages(a) returns the whole mailbox of a and leaves it empty; no
\* other step takes anything out of a mailbox or reorders it
C14_ReadOnceStep ==
    \A a \in AgentIds :
        IF A2AStep("get_messages") /\ a2a'.call.agent = a
        THEN /\ a2a'.call.ret = Mailbox(a)
             /\ a2a'.message_queue[a] = <<>>
             /\ (a2a.call.op = "get_messages" /\ a2a.call.agent = a)
                   => a2a'.call.ret = <<>>
             /\ (a2a.call.op = "publish" /\ a \in Range(a2a.subscriptions[a2a.call.topic]))
                   => /\ a2a'.call.ret # <<>>
                      /\ a2a'.call.ret[Len(a2a'.call.ret)] = a2a.call.message
        ELSE /\ IsPrefix(Mailbox(a), a2a'.message_queue[a])
             /\ \A k \in (Len(Mailbox(a)) + 1)..Len(a2a'.message_queue[a]) :
                   /\ A2AStep("publish")
                   /\ a2a'.message_queue[a][k] = a2a'.call.message

\* C14: get_messages(agent) has read-once semantics: it returns every message
\* delivered to that agent's mailbox since the previous get_messages(agent),
\* in publish order, and leaves the mailbox empty, so a second get_messages
\* right after it returns []; no delivered message is lost or returned by two
\* get_messages calls.
C14_ReadOnce == [][C14_ReadOnceStep]_vars

\* get_messages returned the two messages published to a subscribed agent, in
\* publish order, and left its mailbox empty
C14_Witness ==
    /\ a2a.call.op = "get_messages"
    /\ Len(a2a.call.ret) = 2
    /\ a2a.call.ret[1] # a2a.call.ret[2]
    /\ a2a.message_queue[a2a.call.agent] = <<>>
    /\ Len(a2a.subscriptions["t"]) = 1

\* C15: publish(topic, m) appends m to the mailbox of every agent that is
\* subscribed to that topic at the time of the publish and changes no other
\* mailbox; subscribe changes no mailbox, and get_messages(a) changes no
\* mailbox other than a's.
C15_PublishFrame ==
    [][/\ A2AStep("publish") =>
             \A a \in AgentIds :
                 a2a'.message_queue[a] =
                     IF a \in Range(a2a.subscriptions[a2a'.call.topic])
                     THEN Append(Mailbox(a), a2a'.call.message)
                     ELSE Mailbox(a)
       /\ A2AStep("subscribe") => a2a'.message_queue = a2a.message_queue
       /\ A2AStep("get_messages") =>
             \A a \in AgentIds \ {a2a'.call.agent} : a2a'.message_queue[a] = Mailbox(a)]_vars

(***************************************************************************)
(* backend/observability.py: Span and Tracer.  A tag dict is the set of its *)
(* <<key, value>> items.  Every method runs without suspending, so each    *)
(* call is one step; the block of a `with tracer.trace(...)` in a coroutine *)
(* awaits, so other executions run between its entry and its exit.         *)
(***************************************************************************)
\* Span(trace_id=..., parent_span_id=..., operation_name=...)
Span(span_id, trace_id, parent_span_id, now) ==
    [span_id |-> span_id, trace_id |-> trace_id, parent_span_id |-> parent_span_id,
     start_time |-> now, end_time |-> None, tags |-> {}, logs |-> <<>>,
     status |-> "active"]

\* Span.finish
Finish(span, now) == [span EXCEPT !.end_time = now, !.status = "finished"]

\* Span.duration: end = self.end_time or time.time()
Duration(span, now) ==
    (IF span.end_time # None THEN span.end_time ELSE now) - span.start_time

\* Span.add_tag: self.tags[key] = value
AddedTag(span, key, value) ==
    [span EXCEPT !.tags = {kv \in @ : kv[1] # key} \cup {<<key, value>>}]

\* Span.log
Logged(span, message, error, now) ==
    [span EXCEPT !.logs = Append(@, [timestamp |-> now, message |-> message,
                                     error |-> error])]

TracerCall(op, c, span, parent, trace_id, exc) ==
    [n |-> tcall.n + 1, op |-> op, exec |-> c, span |-> span, parent |-> parent,
     trace_id |-> trace_id, exc |-> exc]

\* lines 85-89
ChosenTraceId(parent, trace_id) ==
    IF trace_id # None THEN trace_id
    ELSE IF parent # None THEN spans[parent].trace_id
    ELSE FreshTraceId(uuids + 1)

\* self.traces[trace_id].append(span.span_id) on a defaultdict(list): a
\* missing key is inserted with an empty list first
Appended(d, trace_id, span_id) ==
    IF trace_id \in DOMAIN d
    THEN [d EXCEPT ![trace_id] = Append(@, span_id)]
    ELSE d @@ (trace_id :> <<span_id>>)

\* Tracer.start_span called by execution c, with the tags the caller adds to
\* the new span right away
StartedSpan(c, parent, trace_id, tags) ==
    LET span_id == Len(spans) + 1
        tid == ChosenTraceId(parent, trace_id)
    IN  /\ Len(spans) < MaxSpans
        /\ spans' = Append(spans, [Span(span_id, tid, parent, clock) EXCEPT !.tags = tags])
        /\ active_spans' = [active_spans EXCEPT ![ThreadOf(c)] = span_id]
        /\ traces' = Appended(traces, tid, span_id)
        /\ uuids' = IF trace_id = None /\ parent = None THEN uuids + 1 ELSE uuids

StartSpan(c, parent, trace_id) ==
    /\ tcall.n < MaxOps
    /\ StartedSpan(c, parent, trace_id, {})
    /\ exec' = [exec EXCEPT ![c].started = Append(@, Len(spans) + 1)]
    /\ tcall' = TracerCall("start_span", c, Len(spans) + 1, parent, trace_id, "none")
    /\ UNCHANGED <<core, a2a, mon, clock>>

\* Tracer.get_active_span called by execution c: the span id, or None
GetActiveSpan(c) ==
    LET span_id == active_spans[ThreadOf(c)]
    IN  IF span_id # None /\ span_id \in DOMAIN spans THEN span_id ELSE None

\* as MarkersAfterFinish, with the markers of a thread kept as a stack:
\* finishing the marked span brings back the span started before it that
\* is still active
MarkersAsStack(markers, thread_id, span_id) ==
    LET earlier == {k \in DOMAIN spans : k < span_id /\ spans[k].status = "active"}
    IN  IF markers[thread_id] # span_id THEN markers
        ELSE IF earlier = {} THEN [markers EXCEPT ![thread_id] = None]
        ELSE [markers EXCEPT ![thread_id] = CHOOSE k \in earlier : \A j \in earlier : j <= k]

\* as MarkersAfterFinish, deleting the calling thread's marker whatever it
\* points at
MarkersAlwaysCleared(markers, thread_id, span_id) ==
    [markers EXCEPT ![thread_id] = None]

\* lines 110-112
MarkersAfterFinish(markers, thread_id, span_id) ==
    IF markers[thread_id] = span_id
    THEN [markers EXCEPT ![thread_id] = None]
    ELSE markers

\* Tracer.finish_span(span) called by execution c
FinishedSpan(c, span_id, base) ==
    /\ spans' = [base EXCEPT ![span_id] = Finish(@, clock)]
    /\ active_spans' = MarkersAfterFinish(active_spans, ThreadOf(c), span_id)

FinishSpan(c, span_id) ==
    /\ tcall.n < MaxOps
    /\ FinishedSpan(c, span_id, spans)
    /\ tcall' = TracerCall("finish_span", c, span_id, None, None, "none")
    /\ UNCHANGED <<core, a2a, mon, traces, uuids, clock, exec>>

\* span.finish() called by the execution that holds the span
SpanFinish(c, span_id) ==
    /\ tcall.n < MaxOps
    /\ spans' = [spans EXCEPT ![span_id] = Finish(@, clock)]
    /\ tcall' = TracerCall("finish", c, span_id, None, None, "none")
    /\ UNCHANGED <<core, a2a, mon, active_spans, traces, uuids, clock, exec>>

SpanAddTag(c, span_id, key, value) ==
    /\ tcall.n < MaxOps
    /\ spans' = [spans EXCEPT ![span_id] = AddedTag(@, key, value)]
    /\ tcall' = TracerCall("add_tag", c, span_id, None, None, "none")
    /\ UNCHANGED <<core, a2a, mon, active_spans, traces, uuids, clock, exec>>

SpanLog(c, span_id, message) ==
    /\ tcall.n < MaxOps
    /\ spans' = [spans EXCEPT ![span_id] = Logged(@, message, "", clock)]
    /\ tcall' = TracerCall("log", c, span_id, None, None, "none")
    /\ UNCHANGED <<core, a2a, mon, active_spans, traces, uuids, clock, exec>>

\* time passes
Tick ==
    /\ clock < MaxTime
    /\ clock' = clock + 1
    /\ UNCHANGED <<core, a2a, mon, spans, active_spans, traces, uuids, exec, tcall>>

\* as OnException, without the error-message tag and the log entry
OnExceptionMarkerOnly(span, exc, now) == AddedTag(span, "error", "True")

\* lines 123-125: the except clause of Tracer.trace
OnException(span, exc, now) ==
    Logged(AddedTag(AddedTag(span, "error", "True"), "error.message", exc),
           "Exception occurred", exc, now)

\* the tags given to tracer.trace(operation_name, **tags)
TraceTags == {{}, {<<"session_id", "s1">>}}

\* what the block of a `with` statement can raise ("none": it ends normally):
\* an Exception, or a BaseException that is not an Exception, as the
\* asyncio.CancelledError thrown into `await mas.process_message(...)` when
\* the request's task is cancelled
BlockOutcomes == {"none", "ValueError('x')", "CancelledError()"}

\* line 122: what `except Exception` catches
Exceptions == {"ValueError('x')"}

\* `with tracer.trace(...) as span:` is entered by execution c (lines 116-121)
TraceEnter(c, tags) ==
    /\ tcall.n < MaxOps
    /\ exec[c].pc = "idle"
    /\ StartedSpan(c, None, None, tags)
    /\ exec' = [exec EXCEPT ![c] = [pc |-> "block", span |-> Len(spans) + 1,
                                    started |-> Append(@.started, Len(spans) + 1),
                                    exit |-> "none", exc |-> "none"]]
    /\ tcall' = TracerCall("trace_enter", c, Len(spans) + 1, None, None, "none")
    /\ UNCHANGED <<core, a2a, mon, clock>>

\* the block is left, normally or by the exception exc (lines 122-128)
TraceExit(c, exc) ==
    /\ tcall.n < MaxOps
    /\ exec[c].pc = "block"
    /\ LET span_id == exec[c].span
           afterExcept == IF exc \in Exceptions
                          THEN OnException(spans[span_id], exc, clock)
                          ELSE spans[span_id]
       IN  /\ FinishedSpan(c, span_id, [spans EXCEPT ![span_id] = afterExcept])
           /\ tcall' = TracerCall("trace_exit", c, span_id, None, None, exc)
    /\ exec' = [exec EXCEPT ![c].pc = "idle",
                            ![c].exit = IF exc # "none" THEN "raised" ELSE "returned",
                            ![c].exc = exc]
    /\ UNCHANGED <<core, a2a, mon, traces, uuids, clock>>

\* spans are started and finished through the tracer by executions on two
\* threads
NextTracer ==
    \/ \E c \in Execs, parent \in {None} \cup DOMAIN spans, trace_id \in {None} \cup TraceArgs :
          StartSpan(c, parent, trace_id)
    \/ \E c \in Execs : \E span_id \in Range(exec[c].started) : FinishSpan(c, span_id)
    \/ Tick

SpecTracer == Init /\ [][NextTracer]_vars

\* executions run `with tracer.trace(...)` blocks that tag the span they
\* are given
NextTrace ==
    \/ \E c \in Execs, tags \in TraceTags : TraceEnter(c, tags)
    \/ \E c \in Execs, exc \in BlockOutcomes : TraceExit(c, exc)
    \/ \E c \in Execs : exec[c].pc = "block" /\ SpanAddTag(c, exec[c].span, "execution_mode", "single")
    \/ Tick

SpecTrace == Init /\ [][NextTrace]_vars

\* one execution starts spans and uses every method of Span on them
NextSpan ==
    \/ StartSpan("c1", None, None)
    \/ \E span_id \in Range(exec["c1"].started) :
          \/ FinishSpan("c1", span_id)
          \/ SpanFinish("c1", span_id)
          \/ SpanAddTag("c1", span_id, "k", "v")
          \/ SpanLog("c1", span_id, "m")
    \/ Tick

SpecSpan == Init /\ [][NextSpan]_vars

(***************************************************************************)
(* Properties of the tracer (SpecTracer, SpecTrace, SpecSpan)              *)
(***************************************************************************)
\* this step is a call of op on the tracer or on a span
TracerStep(op) == tcall'.n = tcall.n + 1 /\ tcall'.op = op

\* C16: the active-span pointer is kept per execution context: when two
\* concurrently running executions each start a span, get_active_span()
\* called from within either returns a span that execution started itself,
\* never the other's.
C16_ActiveSpanIsOwn ==
    \A c \in Execs :
        GetActiveSpan(c) # None => GetActiveSpan(c) \in Range(exec[c].started)

\* C17: finish_span(span) marks the span finished and removes the calling
\* context's active-span marker if and only if that marker points at this
\* span; a marker that points at a different span, and the markers of every
\* other context, are left unchanged.
C17_FinishSpanFrame ==
    [][TracerStep("finish_span") =>
          LET span_id == tcall'.span
              th == ThreadOf(tcall'.exec)
          IN  /\ spans'[span_id].status = "finished"
              /\ active_spans'[th] = None <=>
                    (active_spans[th] = span_id \/ active_spans[th] = None)
              /\ active_spans[th] # span_id => active_spans'[th] = active_spans[th]
              /\ \A other \in Threads \ {th} : active_spans'[other] = active_spans[other]]_vars

\* a span was finished while its thread's marker pointed at a span started
\* later and another thread had a marker of its own: both markers are there
C17_Witness ==
    /\ tcall.op = "finish_span"
    /\ spans[tcall.span].status = "finished"
    /\ active_spans[ThreadOf(tcall.exec)] \notin {None, tcall.span}
    /\ \E other \in Threads \ {ThreadOf(tcall.exec)} : active_spans[other] # None

\* C18: start_span chooses the trace id by the precedence parent, then
\* trace_id, then fresh: with a parent the new span carries the parent's trace
\* id and the parent's span id as parent_span_id, whatever trace_id is;
\* without a parent a given trace_id is used as is; with neither the trace id
\* is one not used before; the new span becomes the caller's active span.
C18_TraceIdPrecedence ==
    [][TracerStep("start_span") =>
          LET new == spans'[tcall'.span]
              parent == tcall'.parent
              trace_id == tcall'.trace_id
          IN  /\ tcall'.span \notin DOMAIN spans
              /\ parent # None =>
                    /\ new.trace_id = spans[parent].trace_id
                    /\ new.parent_span_id = spans[parent].span_id
              /\ (parent = None /\ trace_id # None) =>
                    new.trace_id = trace_id /\ new.parent_span_id = None
              /\ (parent = None /\ trace_id = None) =>
                    /\ new.trace_id \notin TraceArgs
                    /\ \A k \in DOMAIN spans : spans[k].trace_id # new.trace_id
                    /\ new.parent_span_id = None
              /\ active_spans'[ThreadOf(tcall'.exec)] = new.span_id]_vars

TagKeys(span) == {kv[1] : kv \in span.tags}

\* C19: the scoped trace helper finishes its span on every exit path of the
\* block; when the block raises it tags the span with an error marker and an
\* error-message tag, logs the failure on the span and re-raises the same
\* exception; when the block ends normally the span is finished with no error
\* tag.
C19_TagsEveryRaise ==
    [][TracerStep("trace_exit") =>
          LET c == tcall'.exec
              new == spans'[exec[c].span]
              e == tcall'.exc
          IN  /\ new.status = "finished"
              /\ e # "none" =>
                    /\ <<"error", "True">> \in new.tags
                    /\ <<"error.message", e>> \in new.tags
                    /\ Len(new.logs) = Len(spans[exec[c].span].logs) + 1
                    /\ exec'[c].exit = "raised" /\ exec'[c].exc = e
              /\ e = "none" =>
                    /\ "error" \notin TagKeys(new)
                    /\ exec'[c].exit = "returned"]_vars

\* C19 as the code has it: the span is finished on every exit path and the
\* exception leaves the block unchanged; the error tags and the log entry
\* are added when the block raises an Exception; a BaseException that is not
\* an Exception, and a normal end, leave tags and logs as the block left them.
C19_TraceAlwaysFinishes ==
    [][TracerStep("trace_exit") =>
          LET c == tcall'.exec
              span_id == exec[c].span
              old == spans[span_id]
              new == spans'[span_id]
              e == tcall'.exc
          IN  /\ new.status = "finished"
              /\ new.end_time = clock
              /\ exec'[c].pc = "idle"
              /\ exec'[c].exit = (IF e = "none" THEN "returned" ELSE "raised")
              /\ exec'[c].exc = e
              /\ IF e \in Exceptions
                 THEN /\ <<"error", "True">> \in new.tags
                      /\ <<"error.message", e>> \in new.tags
                      /\ new.logs = Append(old.logs, [timestamp |-> clock,
                                                      message |-> "Exception occurred",
                                                      error |-> e])
                 ELSE /\ new.tags = old.tags
                      /\ TagKeys(new) \cap {"error", "error.message"} = {}
                      /\ new.logs = old.logs]_vars

\* two executions were in their blocks at once; one block raised and the
\* other ended normally, and both spans are finished, only one with an error
C19_Witness ==
    \E c, d \in Execs :
        /\ exec[c].exit = "raised" /\ exec[d].exit = "returned"
        /\ spans[exec[c].span].status = "finished"
        /\ spans[exec[d].span].status = "finished"
        /\ "error" \in TagKeys(spans[exec[c].span])
        /\ "error" \notin TagKeys(spans[exec[d].span])
        /\ exec[c].span < exec[d].span

\* C20: a span's end_time is set exactly once, only by finish, and never
\* earlier than start_time; once a span is finished its end_time, status,
\* tags, logs and duration() never change again under any later finish,
\* finish_span, add_tag or log.
C20_FinishedSpanIsFrozen ==
    /\ [](\A k \in DOMAIN spans :
             /\ spans[k].end_time # None <=> spans[k].status = "finished"
             /\ spans[k].end_time # None => spans[k].end_time >= spans[k].start_time)
    /\ [][\A k \in DOMAIN spans :
             /\ spans'[k].end_time # spans[k].end_time =>
                   /\ spans[k].end_time = None
                   /\ TracerStep("finish") \/ TracerStep("finish_span") \/ TracerStep("trace_exit")
             /\ spans[k].status = "finished" =>
                   /\ spans'[k] = spans[k]
                   /\ Duration(spans'[k], clock') = Duration(spans[k], clock)]_vars

(***************************************************************************)
(* Trace reconstruction: Tracer.get_trace and the tree of                  *)
(* ObservabilityManager.get_trace_analysis.                                *)
(***************************************************************************)
\* Tracer.get_trace: the ids of the spans it returns, in the order returned
GetTrace(trace_id) ==
    LET span_ids == IF trace_id \in DOMAIN traces THEN traces[trace_id] ELSE <<>>
    IN  SelectSeq(span_ids, LAMBDA span_id : span_id \in DOMAIN spans)

\* root_spans of get_trace_analysis
RootSpans(trace) == {k \in Range(trace) : spans[k].parent_span_id = None}

\* children of build_tree
Children(trace, span_id) == {k \in Range(trace) : spans[k].parent_span_id = span_id}

\* the spans of the tree build_tree(span) returns
RECURSIVE BuildTree(_, _)
BuildTree(trace, span_id) ==
    {span_id} \cup UNION {BuildTree(trace, child) : child \in Children(trace, span_id)}

\* the spans of trace_tree
TraceTree(trace_id) ==
    UNION {BuildTree(GetTrace(trace_id), root) : root \in RootSpans(GetTrace(trace_id))}

\* the spans started under trace_id, in the order they were started
StartedUnder(trace_id) ==
    SelectSeq([k \in 1..Len(spans) |-> k], LAMBDA k : spans[k].trace_id = trace_id)

\* C21: get_trace(trace_id) returns exactly the spans started under that
\* trace id, in the order they were started; every span with a
\* parent_span_id has its parent among the spans of the same trace; the tree
\* of get_trace_analysis contains every span of the trace.
C21_TraceIsClosedTree ==
    \A trace_id \in TraceIds :
        /\ GetTrace(trace_id) = StartedUnder(trace_id)
        /\ \A k \in Range(GetTrace(trace_id)) :
              spans[k].parent_span_id # None =>
                 spans[k].parent_span_id \in Range(GetTrace(trace_id))
        /\ TraceTree(trace_id) = Range(GetTrace(trace_id))

(***************************************************************************)
(* backend/observability.py: MetricsCollector.                             *)
(*                                                                         *)
(* A Python dict is a sequence of <<key, value>> pairs with distinct keys, *)
(* in insertion order.  Values and amounts are integers.                   *)
(***************************************************************************)
DictHas(d, k) == \E i \in DOMAIN d : d[i][1] = k

\* d.get(k, default); d[k] of a defaultdict whose factory gives default
DictGet(d, k, default) ==
    IF DictHas(d, k) THEN d[CHOOSE i \in DOMAIN d : d[i][1] = k][2] ELSE default

\* d[k] = v
DictSet(d, k, v) ==
    IF DictHas(d, k)
    THEN [i \in DOMAIN d |-> IF d[i][1] = k THEN <<k, v>> ELSE d[i]]
    ELSE Append(d, <<k, v>>)

\* list(d.keys())
DictKeys(d) == [i \in DOMAIN d |-> d[i][1]]

\* the label keys callers use, in the order sorted() puts them
LabelKeys == <<"agent_id", "operation", "zone">>

\* json.dumps(labels, sort_keys=True): the pairs of labels in the order of
\* their keys
SortKeys(labels) ==
    LET present == SelectSeq(LabelKeys, LAMBDA k : DictHas(labels, k))
    IN  [i \in DOMAIN present |-> <<present[i], DictGet(labels, present[i], "")>>]

\* key = f"{name}:{json.dumps(labels, sort_keys=True)}"
Key(name, labels) == <<name, SortKeys(labels)>>

\* Metric(name, metric_type, value, labels), timestamp = time.time()
Metric(name, metric_type, value, labels, now) ==
    [name |-> name, metric_type |-> metric_type, value |-> value, labels |-> labels,
     timestamp |-> now]

\* self.metrics[name].append(metric)
Sampled(c, metric) ==
    [c EXCEPT !.metrics = DictSet(@, metric.name,
                                  Append(DictGet(@, metric.name, <<>>), metric))]

\* as CounterAdded, for a counter that is set to the amount of the call
CounterOverwritten(c, name, value, labels, now) ==
    LET c1 == [c EXCEPT !.counters = DictSet(@, Key(name, labels), value)]
    IN  Sampled(c1, Metric(name, "counter", value, labels, now))

\* MetricsCollector.counter, run without interruption (lines 161-168)
CounterAdded(c, name, value, labels, now) ==
    LET key == Key(name, labels)
        c1 == [c EXCEPT !.counters = DictSet(@, key, DictGet(@, key, 0) + value)]
    IN  Sampled(c1, Metric(name, "counter", DictGet(c1.counters, key, 0), labels, now))

\* MetricsCollector.gauge (lines 170-177)
GaugeSet(c, name, value, labels, now) ==
    LET c1 == [c EXCEPT !.gauges = DictSet(@, Key(name, labels), value)]
    IN  Sampled(c1, Metric(name, "gauge", value, labels, now))

\* MetricsCollector.histogram (lines 179-186)
HistogramRecorded(c, name, value, labels, now) ==
    LET key == Key(name, labels)
        c1 == [c EXCEPT !.histograms = DictSet(@, key, Append(DictGet(@, key, <<>>), value))]
    IN  Sampled(c1, Metric(name, "histogram", value, labels, now))

\* MetricsCollector.timer (lines 188-195)
TimerRecorded(c, name, duration, labels, now) ==
    LET key == Key(name, labels)
        c1 == [c EXCEPT !.timers = DictSet(@, key, Append(DictGet(@, key, <<>>), duration))]
    IN  Sampled(c1, Metric(name, "timer", duration, labels, now))

MetricTypes == {"counter", "gauge", "histogram", "timer"}

\* the collector after one call of the method named by metric_type
Recorded(c, metric_type, name, value, labels, now) ==
    CASE metric_type = "counter" -> CounterAdded(c, name, value, labels, now)
      [] metric_type = "gauge" -> GaugeSet(c, name, value, labels, now)
      [] metric_type = "histogram" -> HistogramRecorded(c, name, value, labels, now)
      [] metric_type = "timer" -> TimerRecorded(c, name, value, labels, now)

CollectorCall(op, name, value, labels) ==
    [op |-> op, name |-> name, value |-> value, labels |-> labels]

\* the collector after the call collector.<metric_type>(name, value, labels)
\* made at time now
AfterCall(c, metric_type, name, value, labels, now) ==
    [Recorded(c, metric_type, name, value, labels, now) EXCEPT
        !.log = Append(@, CollectorCall(metric_type, name, value, labels))]

\* a call of collector.<metric_type>(name, value, labels) by the event loop
\* thread
Record(metric_type, name, value, labels) ==
    /\ collector' = AfterCall(collector, metric_type, name, value, labels, clock)
    /\ UNCHANGED <<core, a2a, obs, workers, manager>>

(***************************************************************************)
(* MetricsCollector.get_metric_summary and _percentile.                    *)
(***************************************************************************)
Window == 100    \* recent_metrics = self.metrics[name][-100:]

\* s[-n:]
LastN(s, n) == IF Len(s) <= n THEN s ELSE SubSeq(s, Len(s) - n + 1, Len(s))

RECURSIVE Sum(_)
Sum(values) == IF values = <<>> THEN 0 ELSE Head(values) + Sum(Tail(values))

MinOf(values) == CHOOSE v \in Range(values) : \A w \in Range(values) : v <= w

MaxOf(values) == CHOOSE v \in Range(values) : \A w \in Range(values) : v >= w

\* sorted(values)[index], index counted from 0: the value that has at most
\* index values below it and more than index values not above it
SortedAt(values, index) ==
    CHOOSE v \in Range(values) :
        /\ Cardinality({i \in DOMAIN values : values[i] < v}) <= index
        /\ Cardinality({i \in DOMAIN values : values[i] <= v}) > index

\* as Percentile, by the nearest-rank rule: index = ceil(percentile * n / 100) - 1
PercentileNearestRank(values, percentile) ==
    IF values = <<>> THEN 0
    ELSE LET rank == (percentile * Len(values) + 99) \div 100
         IN  SortedAt(values, IF rank > 0 THEN rank - 1 ELSE 0)

\* index = int((percentile / 100.0) * len(sorted_values)); for the three
\* percentiles asked for and windows of at most 100 values the float product
\* truncates to floor(percentile * n / 100)
Percentile(values, percentile) ==
    IF values = <<>> THEN 0
    ELSE LET index == (percentile * Len(values)) \div 100
             last == Len(values) - 1
         IN  SortedAt(values, IF index < last THEN index ELSE last)

\* get_metric_summary returns {} for a name that was never recorded
NoSummary == [name |-> <<>>, type |-> "none", count |-> 0, latest |-> 0, timestamp |-> 0,
              keys |-> {}]

\* metric_type = recent_metrics[0].metric_type
WindowType(recent_metrics) == recent_metrics[1].metric_type

\* MetricsCollector.get_metric_summary (lines 207-238); keys is the set of
\* keys of the returned dict, avg is the pair <<sum, len>> of the quotient
GetMetricSummary(c, name) ==
    IF ~DictHas(c.metrics, name) THEN NoSummary
    ELSE LET recent_metrics == LastN(DictGet(c.metrics, name, <<>>), Window)
             metric_type == WindowType(recent_metrics)
             values == [i \in DOMAIN recent_metrics |-> recent_metrics[i].value]
             summary == [name |-> name, type |-> metric_type, count |-> Len(values),
                         latest |-> values[Len(values)],
                         timestamp |-> recent_metrics[Len(recent_metrics)].timestamp,
                         keys |-> {"name", "type", "count", "latest", "timestamp"}]
         IN  IF metric_type \in {"histogram", "timer"}
             THEN [k \in DOMAIN summary \cup {"min", "max", "avg", "p50", "p95", "p99"} |->
                      CASE k = "min" -> MinOf(values)
                        [] k = "max" -> MaxOf(values)
                        [] k = "avg" -> <<Sum(values), Len(values)>>
                        [] k = "p50" -> Percentile(values, 50)
                        [] k = "p95" -> Percentile(values, 95)
                        [] k = "p99" -> Percentile(values, 99)
                        [] k = "keys" -> summary.keys \cup {"min", "max", "avg", "p50", "p95", "p99"}
                        [] OTHER -> summary[k]]
             ELSE summary

\* MetricsCollector.get_all_metrics: the summaries in the order of
\* self.metrics.keys()
GetAllMetrics(c) ==
    [i \in DOMAIN c.metrics |-> GetMetricSummary(c, c.metrics[i][1])]

(***************************************************************************)
(* Counters: calls of counter() among calls of the other three methods.    *)
(***************************************************************************)
\* metric names are sequences of characters
CounterNames == {<<"x">>, <<"y">>}

\* label dicts; the last two hold the same labels, inserted in another order
CounterLabels ==
    {<<>>,
     << <<"agent_id", "a1">>, <<"zone", "z">> >>,
     << <<"zone", "z">>, <<"agent_id", "a1">> >>}

\* amounts handed to counter(); the code accepts any float
Amounts == {1, 2, -1}

NextCounters ==
    /\ Len(collector.log) < MaxMetricCalls
    /\ \/ \E name \in CounterNames, value \in Amounts, labels \in CounterLabels :
             Record("counter", name, value, labels)
       \/ \E metric_type \in MetricTypes \ {"counter"}, name \in CounterNames :
             Record(metric_type, name, 5, <<>>)

SpecCounters == Init /\ [][NextCounters]_vars

\* the newest sample recorded under name (a record without fields if none)
NewestSample(c, name) ==
    LET samples == DictGet(c.metrics, name, <<>>)
    IN  samples[Len(samples)]

\* the amounts of the counter(name, amount, labels) calls made so far with
\* this name and these labels, whatever the order the labels were given in
AmountsOf(name, labels) ==
    LET calls == SelectSeq(collector.log,
                           LAMBDA call : /\ call.op = "counter"
                                         /\ call.name = name
                                         /\ SortKeys(call.labels) = SortKeys(labels))
    IN  [i \in DOMAIN calls |-> calls[i].value]

\* this step is a call on the collector
CollectorStep == Len(collector'.log) = Len(collector.log) + 1

LastCall == collector.log[Len(collector.log)]

\* C22: a counter(name, amount, labels) call adds amount to the running
\* total of its own (name, sorted labels) key only and appends a sample with
\* the key's new total; when the newest sample under a name is that of the
\* n-th counter call with some labels, get_metric_summary(name)['latest'] is
\* the sum of the n amounts, whatever was recorded under other names.
C22_CounterAccumulates ==
    /\ [](\A name \in CounterNames :
             (DictHas(collector.metrics, name) /\ NewestSample(collector, name).metric_type = "counter") =>
                GetMetricSummary(collector, name).latest =
                   Sum(AmountsOf(name, NewestSample(collector, name).labels)))
    /\ [][(CollectorStep /\ LastCall'.op = "counter") =>
             LET call == LastCall'
                 key == Key(call.name, call.labels)
             IN  /\ DictGet(collector'.counters, key, 0) =
                       DictGet(collector.counters, key, 0) + call.value
                 /\ \A other \in (Range(DictKeys(collector'.counters)) \ {key}) :
                       /\ DictHas(collector.counters, other)
                       /\ DictGet(collector'.counters, other, 0) =
                             DictGet(collector.counters, other, 0)
                 /\ NewestSample(collector', call.name) =
                       Metric(call.name, "counter", DictGet(collector'.counters, key, 0),
                              call.labels, clock)
                 /\ \A name \in CounterNames \ {call.name} :
                       DictGet(collector'.metrics, name, <<>>) =
                          DictGet(collector.metrics, name, <<>>)]_vars

\* counter('x', 1) was called three times with empty labels, and latest is 3
C22_Witness ==
    /\ Len(collector.log) = 3
    /\ \A i \in 1..3 : collector.log[i] = CollectorCall("counter", <<"x">>, 1, <<>>)
    /\ GetMetricSummary(collector, <<"x">>).latest = 3

\* C23: for every (name, label set) key the running counter total never
\* decreases, over any calls of counter, gauge, histogram and timer with any
\* amounts.
C23_CountersNeverDecrease ==
    [][\A key \in Range(DictKeys(collector.counters)) :
          DictGet(collector'.counters, key, 0) >= DictGet(collector.counters, key, 0)]_vars

(***************************************************************************)
(* ObservabilityManager._export_prometheus_format.                         *)
(***************************************************************************)
\* metric_name.replace(".", "_").replace("-", "_")
PromName(metric_name) ==
    [i \in DOMAIN metric_name |->
        IF metric_name[i] \in {".", "-"} THEN "_" ELSE metric_name[i]]

\* the lines written for one summary (lines 492-500); a line is a tuple:
\* <<prom_name, "# HELP", type>>, <<prom_name, "# TYPE", type>>,
\* <<prom_name, suffix, number>>.  avg * count is the window's sum up to the
\* rounding of the float quotient and product
PromLines(summary) ==
    LET prom_name == PromName(summary.name)
    IN  << <<prom_name, "# HELP", summary.type>>, <<prom_name, "# TYPE", summary.type>> >> \o
        (IF summary.type = "histogram"
         THEN << <<prom_name, "_count", summary.count>>,
                 <<prom_name, "_sum", summary.avg[1]>> >>
         ELSE << <<prom_name, "", summary.latest>> >>)

RECURSIVE Joined(_)
Joined(lists) == IF lists = <<>> THEN <<>> ELSE Head(lists) \o Joined(Tail(lists))

\* ObservabilityManager._export_prometheus_format: the lines of the text
ExportPrometheusFormat(c) ==
    LET summaries == GetAllMetrics(c)
    IN  Joined([i \in DOMAIN summaries |-> PromLines(summaries[i])])

(***************************************************************************)
(* Summaries: samples of every kind recorded under one name, and a gauge   *)
(* under a second name.                                                    *)
(***************************************************************************)
SummaryName == <<"h", ".", "b">>

GaugeName == <<"g", "-", "c">>

SampleValues == {10, 20, 30, 40}

\* a caller records Window - 2 samples in a row, of one kind and one value
\* (the first half is evaluated before the second is begun; its log is
\* never shorter than half)
RECURSIVE Repeated(_, _, _, _, _, _)
Repeated(c, times, metric_type, name, value, now) ==
    IF times = 0 THEN c
    ELSE IF times = 1 THEN AfterCall(c, metric_type, name, value, <<>>, now)
    ELSE LET half == times \div 2
             first == Repeated(c, half, metric_type, name, value, now)
         IN  IF Len(first.log) >= half
             THEN Repeated(first, times - half, metric_type, name, value, now)
             ELSE first

Burst(metric_type, name, value) ==
    /\ collector.log = <<>>
    /\ collector' = Repeated(collector, Window - 2, metric_type, name, value, clock)
    /\ UNCHANGED <<core, a2a, obs, workers, manager>>

\* the single calls made so far
Singles == IF Len(collector.log) >= Window - 2
           THEN Len(collector.log) - (Window - 2) ELSE Len(collector.log)

NextSummary ==
    \/ \E metric_type \in {"gauge", "histogram"} : Burst(metric_type, SummaryName, 20)
    \/ /\ Singles < MaxSamples
       /\ \/ \E metric_type \in {"histogram", "timer"}, value \in SampleValues :
                Record(metric_type, SummaryName, value, <<>>)
          \/ \E metric_type \in {"counter", "gauge"} :
                Record(metric_type, SummaryName, 10, <<>>)
          \/ Record("gauge", GaugeName, 10, <<>>)

SpecSummary == Init /\ [][NextSummary]_vars

\* the calls made so far under name, oldest first
CallsUnder(name) == SelectSeq(collector.log, LAMBDA call : call.name = name)

\* the values of the last Window calls made under name
WindowValues(name) ==
    LET calls == CallsUnder(name)
        n == Len(calls)
        m == IF n > Window THEN Window ELSE n
    IN  [i \in 1..m |-> calls[n - m + i].value]

Statistics == {"min", "max", "avg", "p50", "p95", "p99"}

\* v is the element at index floor(p/100 * n), clamped to n - 1, of the
\* sorted values
IsPercentile(v, values, p) ==
    LET n == Len(values)
        floor == (p * n) \div 100
        index == IF floor > n - 1 THEN n - 1 ELSE floor
    IN  /\ v \in Range(values)
        /\ Cardinality({i \in DOMAIN values : values[i] < v}) <= index
        /\ Cardinality({i \in DOMAIN values : values[i] <= v}) > index

\* C24: for a metric whose samples are histogram or timer samples,
\* get_metric_summary reports min, max and average of the last 100 samples
\* and p50/p95/p99 as the element at index floor(p/100 * n) of the sorted
\* window, clamped to n - 1; the summary of a metric whose samples are
\* counter or gauge samples has none of these statistics.
C24_SummaryStatistics ==
    \A name \in {SummaryName, GaugeName} :
        LET calls == CallsUnder(name)
            values == WindowValues(name)
            summary == GetMetricSummary(collector, name)
        IN  /\ (calls # <<>> /\ \A i \in DOMAIN calls : calls[i].op \in {"histogram", "timer"}) =>
                  /\ Statistics \subseteq summary.keys
                  /\ summary.count = Len(values)
                  /\ summary.min \in Range(values) /\ \A v \in Range(values) : summary.min <= v
                  /\ summary.max \in Range(values) /\ \A v \in Range(values) : summary.max >= v
                  /\ summary.avg = <<Sum(values), Len(values)>>
                  /\ IsPercentile(summary.p50, values, 50)
                  /\ IsPercentile(summary.p95, values, 95)
                  /\ IsPercentile(summary.p99, values, 99)
            /\ (calls # <<>> /\ \A i \in DOMAIN calls : calls[i].op \in {"counter", "gauge"}) =>
                  summary.keys \cap Statistics = {}

\* histogram values [10, 20, 30, 40]: p50 = 30, p95 = 40, p99 = 40, min = 10,
\* max = 40, avg = 25
C24_Witness ==
    /\ [i \in DOMAIN collector.log |-> collector.log[i].value] = <<10, 20, 30, 40>>
    /\ \A i \in DOMAIN collector.log :
          collector.log[i].op = "histogram" /\ collector.log[i].name = SummaryName
    /\ LET summary == GetMetricSummary(collector, SummaryName)
       IN  /\ summary.p50 = 30 /\ summary.p95 = 40 /\ summary.p99 = 40
           /\ summary.min = 10 /\ summary.max = 40
           /\ summary.avg[1] = 25 * summary.avg[2]

\* C25: when samples of different kinds are recorded under one name,
\* get_metric_summary(name) reports the kind of the most recently recorded
\* sample, and has min/max/avg/percentiles exactly when that kind is
\* histogram or timer.
C25_KindOfNewestSample ==
    \A name \in {SummaryName, GaugeName} :
        DictHas(collector.metrics, name) =>
           LET summary == GetMetricSummary(collector, name)
               newest == NewestSample(collector, name).metric_type
           IN  /\ summary.type = newest
               /\ Statistics \subseteq summary.keys <=> newest \in {"histogram", "timer"}

\* the lines of the export that start with prom_name and carry suffix
ValueLines(prom_name, suffix) ==
    SelectSeq(ExportPrometheusFormat(collector),
              LAMBDA line : line[1] = prom_name /\ line[2] = suffix)

\* C30: the prometheus export has for every recorded metric name one value
\* line 'name value' with the summary's latest value, and for the kinds
\* histogram and timer additionally a '_count' line with the window's
\* sample count and a '_sum' line with the sum of the window's values.
C30_ExportLines ==
    \A name \in {SummaryName, GaugeName} :
        DictHas(collector.metrics, name) =>
           LET summary == GetMetricSummary(collector, name)
               prom_name == PromName(name)
           IN  /\ ValueLines(prom_name, "") = << <<prom_name, "", summary.latest>> >>
               /\ summary.type \in {"histogram", "timer"} =>
                     /\ ValueLines(prom_name, "_count") =
                           << <<prom_name, "_count", Len(WindowValues(name))>> >>
                     /\ ValueLines(prom_name, "_sum") =
                           << <<prom_name, "_sum", Sum(WindowValues(name))>> >>

(***************************************************************************)
(* MetricsCollector.counter called from several threads at once.  The      *)
(* method takes no lock: `self.counters[key] += value` reads the total,    *)
(* adds, and stores, and the sample is built from a second read; another   *)
(* thread may run between any two of these.                                *)
(***************************************************************************)
\* line 165, first half: the thread reads self.counters[key] (a defaultdict
\* creates the entry on the read of a key it does not have)
CounterLoad(w, name, value, labels) ==
    LET key == Key(name, labels)
    IN  /\ workers[w].pc = "idle"
        /\ workers[w].done < MaxIncrements
        /\ workers' = [workers EXCEPT ![w] = [@ EXCEPT !.pc = "store", !.name = name,
                                                      !.value = value, !.labels = labels,
                                                      !.total = DictGet(collector.counters, key, 0)]]
        /\ collector' = [collector EXCEPT
                            !.counters = DictSet(@, key, DictGet(@, key, 0))]
        /\ UNCHANGED <<core, a2a, obs, manager>>

\* line 165, second half: the thread stores what it read plus value
CounterStore(w) ==
    LET key == Key(workers[w].name, workers[w].labels)
    IN  /\ workers[w].pc = "store"
        /\ collector' = [collector EXCEPT
                            !.counters = DictSet(@, key, workers[w].total + workers[w].value)]
        /\ workers' = [workers EXCEPT ![w].pc = "sample"]
        /\ UNCHANGED <<core, a2a, obs, manager>>

\* lines 167-168: the sample carries the total read now
CounterSample(w) ==
    LET me == workers[w]
        metric == Metric(me.name, "counter",
                         DictGet(collector.counters, Key(me.name, me.labels), 0),
                         me.labels, clock)
    IN  /\ me.pc = "sample"
        /\ collector' = [Sampled(collector, metric) EXCEPT
                            !.log = Append(@, CollectorCall("counter", me.name, me.value,
                                                            me.labels))]
        /\ workers' = [workers EXCEPT ![w].pc = "idle", ![w].done = @ + 1]
        /\ UNCHANGED <<core, a2a, obs, manager>>

\* what the threads count
SharedNames == {<<"x">>, <<"y">>}

NextThreads ==
    \E w \in Workers :
        \/ \E name \in SharedNames : CounterLoad(w, name, 1, <<>>)
        \/ CounterStore(w)
        \/ CounterSample(w)

SpecThreads == Init /\ [][NextThreads]_vars

\* C28: when N counter(name, 1) calls with the same labels run concurrently
\* from different threads, no increment is lost: once they have all
\* returned the key's total is N, and one sample per call was recorded.
C28_NoLostIncrement ==
    (\A w \in Workers : workers[w].pc = "idle") =>
       \A name \in SharedNames :
          LET N == Len(SelectSeq(collector.log, LAMBDA call : call.name = name))
          IN  /\ DictGet(collector.counters, Key(name, <<>>), 0) = N
              /\ Len(DictGet(collector.metrics, name, <<>>)) = N

(***************************************************************************)
(* ObservabilityManager: alert rules and the sampler thread.  Time is in   *)
(* seconds.                                                                *)
(***************************************************************************)
SampleInterval == 10    \* time.sleep(10)
AlertPeriod == 60       \* time.time() - last_triggered > 60

\* how long after the start of a cycle the next one starts: the sleep alone,
\* or longer when an action ran long or the thread was not scheduled
CycleTimes == {SampleInterval, AlertPeriod + SampleInterval}

\* what a rule's condition does when called, and what its action does
ConditionOutcomes == {"true", "false", "raises"}
ActionOutcomes == {"returns", "raises"}
\* (the action is called only after the condition returned true)
RuleOutcomes ==
    {o \in [condition : ConditionOutcomes, action : ActionOutcomes] :
        o.condition # "true" => o.action = "returns"}

\* the names of the rules the application adds, in the order it adds them
RuleNames == <<"r1", "r2">>

\* add_alert_rule (lines 366-373); invoked and before are the times of the
\* last two calls of the action, checked the last cycle the rule was
\* evaluated in
AlertRule(name) ==
    [name |-> name, last_triggered |-> None, invoked |-> None, before |-> None,
     checked |-> 0]

AddAlertRule ==
    /\ Len(manager.alert_rules) < Len(RuleNames)
    /\ manager' = [manager EXCEPT
                      !.alert_rules = Append(@, AlertRule(RuleNames[Len(@) + 1]))]
    /\ UNCHANGED <<core, a2a, obs, collector, workers>>

\* line 386
Due(rule, now) == rule.last_triggered = None \/ now - rule.last_triggered > AlertPeriod

\* the body of the for loop raised (and the except clause of line 392 logged)
RuleRaised(rule, outcome, now) ==
    \/ outcome.condition = "raises"
    \/ outcome.condition = "true" /\ Due(rule, now) /\ outcome.action = "raises"

\* lines 382-393: one rule is evaluated
CheckRule(rule, outcome, now, cycle) ==
    IF outcome.condition = "true" /\ Due(rule, now)
    THEN [rule EXCEPT !.checked = cycle, !.before = rule.invoked, !.invoked = now,
                      !.last_triggered = IF outcome.action = "returns" THEN now ELSE @]
    ELSE [rule EXCEPT !.checked = cycle]

\* as CheckedRules, for a check that ends at the first rule that raises
CheckedRulesUntilError(rules, outcomes, now, cycle) ==
    [i \in DOMAIN rules |->
        IF \E j \in 1..(i - 1) : RuleRaised(rules[j], outcomes[j], now)
        THEN rules[i]
        ELSE CheckRule(rules[i], outcomes[i], now, cycle)]

\* _check_alerts (lines 375-393): every rule is evaluated in its own try
CheckedRules(rules, outcomes, now, cycle) ==
    [i \in DOMAIN rules |-> CheckRule(rules[i], outcomes[i], now, cycle)]

\* lines 352-354: the three gauges of a cycle
SystemGauges(c, now) ==
    LET c1 == AfterCall(c, "gauge", <<"system", ".", "active_agents">>,
                        Len(manager.agent_observers), <<>>, now)
        c2 == AfterCall(c1, "gauge", <<"system", ".", "active_traces">>,
                        Cardinality(DOMAIN traces), <<>>, now)
    IN  AfterCall(c2, "gauge", <<"system", ".", "total_spans">>, Len(spans), <<>>, now)

\* one pass of the while loop of metrics_collector (lines 349-360): the
\* gauges, the check of the rules, the sleep
SamplerCycle(outcomes, slept) ==
    LET cycle == manager.sampler.cycles + 1
        rules == manager.alert_rules
    IN  /\ manager.sampler.alive
        /\ manager.sampler.cycles < MaxCycles
        /\ collector' = SystemGauges(collector, clock)
        /\ manager' = [manager EXCEPT
              !.alert_rules = CheckedRules(rules, outcomes, clock, cycle),
              !.sampler.cycles = cycle,
              !.sampler.outcomes = outcomes,
              !.sampler.errors = IF \E i \in DOMAIN rules : RuleRaised(rules[i], outcomes[i], clock)
                                 THEN cycle ELSE @]
        /\ clock' = clock + slept
        /\ UNCHANGED <<core, a2a, spans, active_spans, traces, uuids, exec, tcall, workers>>

\* a pass in which get_all_metrics raises (RuntimeError: dictionary changed
\* size during iteration, when the event loop thread records a new metric
\* name meanwhile): line 361 logs, and the loop starts over without the
\* check and without the sleep
SamplerCycleFails ==
    /\ manager.sampler.alive
    /\ manager.sampler.cycles < MaxCycles
    /\ collector' = SystemGauges(collector, clock)
    /\ manager' = [manager EXCEPT !.sampler.cycles = @ + 1, !.sampler.errors = manager.sampler.cycles + 1]
    /\ UNCHANGED <<core, a2a, obs, workers>>

NextAlerts ==
    \/ AddAlertRule
    \/ \E outcomes \in [DOMAIN manager.alert_rules -> RuleOutcomes], slept \in CycleTimes :
          SamplerCycle(outcomes, slept)
    \/ SamplerCycleFails

SpecAlerts == Init /\ [][NextAlerts]_vars

\* C26: each alert rule's action is invoked at most once in any 60-second
\* window, whatever the sampling interval, however often its condition
\* holds, and whether or not the condition or the action raises.
C26_OncePerPeriod ==
    \A i \in DOMAIN manager.alert_rules :
        LET rule == manager.alert_rules[i]
        IN  rule.before # None => rule.invoked - rule.before >= AlertPeriod

\* this step is a pass of the sampler that reached the sleep
CheckStep ==
    /\ manager'.sampler.cycles = manager.sampler.cycles + 1
    /\ clock' > clock

\* C27: a rule whose condition or action raises never stops the sampling:
\* in every check every rule is evaluated, and its action called exactly
\* when its condition returned true and the rule was due; every pass
\* publishes the three gauges; the sampler thread stays alive.
C27_BadRuleNeverStopsSampling ==
    /\ [](manager.sampler.alive)
    /\ [][manager'.sampler.cycles # manager.sampler.cycles =>
             /\ Len(collector'.log) = Len(collector.log) + 3
             /\ {collector'.log[Len(collector.log) + k].name : k \in 1..3} =
                   {<<"system", ".", "active_agents">>, <<"system", ".", "active_traces">>,
                    <<"system", ".", "total_spans">>}]_vars
    /\ [][CheckStep =>
             /\ DOMAIN manager'.alert_rules = DOMAIN manager.alert_rules
             /\ \A i \in DOMAIN manager.alert_rules :
                   LET old == manager.alert_rules[i]
                       new == manager'.alert_rules[i]
                       called == manager'.sampler.outcomes[i].condition = "true" /\ Due(old, clock)
                   IN  /\ new.checked = manager'.sampler.cycles
                       /\ called => new.invoked = clock /\ new.before = old.invoked
                       /\ ~called => new.invoked = old.invoked /\ new.before = old.before]_vars

\* in the first check r1's action raised and r2's action was still called;
\* the second pass evaluated both rules again
C27_Witness ==
    /\ Len(manager.alert_rules) = 2
    /\ manager.sampler.cycles = 2 /\ manager.sampler.errors = 1
    /\ manager.alert_rules[1].invoked = 1 /\ manager.alert_rules[1].last_triggered = None
    /\ manager.alert_rules[2].invoked = 1 /\ manager.alert_rules[2].last_triggered = 1
    /\ \A i \in 1..2 : manager.alert_rules[i].checked = 2

(***************************************************************************)
(* ObservabilityManager.get_agent_observer and AgentObserver.              *)
(***************************************************************************)
ObservedIds == {"a1", "system"}

ManagerCall(op, agent_id, ret, span) ==
    [op |-> op, agent_id |-> agent_id, ret |-> ret, span |-> span]

\* get_agent_observer (lines 337-342); an AgentObserver object is the
\* record of its number (in the order of construction) and its agent_id
GetAgentObserver(agent_id) ==
    LET found == DictHas(manager.agent_observers, agent_id)
        observer == [object |-> manager.created + 1, agent_id |-> agent_id]
        observers == IF found THEN manager.agent_observers
                     ELSE DictSet(manager.agent_observers, agent_id, observer)
    IN  /\ manager.calls < MaxObserverCalls
        /\ manager' = [manager EXCEPT
              !.agent_observers = observers,
              !.created = IF found THEN @ ELSE @ + 1,
              !.call = ManagerCall("get_agent_observer", agent_id,
                                   DictGet(observers, agent_id, None), None),
              !.calls = @ + 1]
        /\ UNCHANGED <<core, a2a, obs, collector, workers>>

\* for key, value in tags.items(): span.add_tag(key, value)
RECURSIVE Tagged(_, _)
Tagged(span, tags) ==
    IF tags = <<>> THEN span
    ELSE Tagged(AddedTag(span, Head(tags)[1], Head(tags)[2]), Tail(tags))

OperationsStarted == <<"agent", ".", "operations", ".", "started">>

\* AgentObserver.start_operation(operation_name, **tags) on the observer of
\* agent_id, called by execution c (lines 288-297)
StartOperation(c, agent_id, operation_name, tags) ==
    LET observer == DictGet(manager.agent_observers, agent_id, None)
        span_id == Len(spans) + 1
        span == Tagged(AddedTag(Span(span_id, FreshTraceId(uuids + 1), None, clock),
                                "agent_id", observer.agent_id),
                       tags)
    IN  /\ manager.calls < MaxObserverCalls
        /\ DictHas(manager.agent_observers, agent_id)
        /\ StartedSpan(c, None, None, span.tags)
        /\ exec' = [exec EXCEPT ![c].started = Append(@, span_id)]
        /\ tcall' = TracerCall("start_operation", c, span_id, None, None, "none")
        /\ collector' = AfterCall(collector, "counter", OperationsStarted, 1,
                                  << <<"agent_id", observer.agent_id>>,
                                     <<"operation", operation_name>> >>, clock)
        /\ manager' = [manager EXCEPT
              !.call = ManagerCall("start_operation", agent_id, None, span_id),
              !.calls = @ + 1]
        /\ UNCHANGED <<core, a2a, clock, workers>>

\* what callers pass as metric_type; "summary" is none of the four kinds
ObserverMetricTypes == MetricTypes \cup {"summary"}

\* AgentObserver.record_metric(metric_name, value, metric_type, **labels) on
\* the observer of agent_id (lines 299-310)
RecordMetric(agent_id, metric_name, value, metric_type, labels) ==
    LET observer == DictGet(manager.agent_observers, agent_id, None)
        labelled == DictSet(labels, "agent_id", observer.agent_id)
    IN  /\ manager.calls < MaxObserverCalls
        /\ DictHas(manager.agent_observers, agent_id)
        /\ collector' = IF metric_type \in MetricTypes
                        THEN AfterCall(collector, metric_type, metric_name, value, labelled, clock)
                        ELSE collector
        /\ manager' = [manager EXCEPT
              !.call = ManagerCall("record_metric", agent_id, None, None),
              !.calls = @ + 1]
        /\ UNCHANGED <<core, a2a, obs, workers>>

\* the tags and the labels callers pass to an observer
CallerTags == {<<>>, << <<"zone", "z">> >>, << <<"agent_id", "other">> >>}

ChatRequests == <<"chat", ".", "requests">>

NextObserver ==
    \/ \E agent_id \in ObservedIds : GetAgentObserver(agent_id)
    \/ \E agent_id \in ObservedIds, tags \in CallerTags :
          StartOperation("c1", agent_id, "process", tags)
    \/ \E agent_id \in ObservedIds, metric_type \in ObserverMetricTypes, labels \in CallerTags :
          RecordMetric(agent_id, ChatRequests, 1, metric_type, labels)

SpecObserver == Init /\ [][NextObserver]_vars

\* this step is a call of op on the manager or on one of its observers
ManagerStep(op) == manager'.calls = manager.calls + 1 /\ manager'.call.op = op

\* C29: get_agent_observer(agent_id) creates an observer on first use and
\* returns that same observer on every later call for the id, so there is
\* at most one observer per agent id; every span started and every metric
\* recorded through an observer carries agent_id equal to the observer's
\* agent id, whatever extra tags or labels the caller passes.
C29_ObserverTagsEverything ==
    /\ [](/\ manager.created = Len(manager.agent_observers)
          /\ \A i, j \in DOMAIN manager.agent_observers :
                manager.agent_observers[i][1] = manager.agent_observers[j][1] => i = j
          /\ \A i \in DOMAIN manager.agent_observers :
                manager.agent_observers[i][2].agent_id = manager.agent_observers[i][1])
    /\ [][ManagerStep("get_agent_observer") =>
             LET agent_id == manager'.call.agent_id
             IN  /\ manager'.call.ret = DictGet(manager'.agent_observers, agent_id, None)
                 /\ manager'.call.ret.agent_id = agent_id
                 /\ \A i \in DOMAIN manager.agent_observers :
                       manager'.agent_observers[i] = manager.agent_observers[i]]_vars
    /\ [][ManagerStep("start_operation") =>
             LET agent_id == manager'.call.agent_id
                 tags == spans'[manager'.call.span].tags
                 sample == NewestSample(collector', OperationsStarted)
             IN  /\ {kv[2] : kv \in {t \in tags : t[1] = "agent_id"}} = {agent_id}
                 /\ DictGet(sample.labels, "agent_id", None) = agent_id]_vars
    /\ [][(ManagerStep("record_metric") /\ collector' # collector) =>
             LET sample == NewestSample(collector', ChatRequests)
             IN  DictGet(sample.labels, "agent_id", None) = manager'.call.agent_id]_vars

(***************************************************************************)
(* ObservabilityManager: dashboards, trace analysis and export, called     *)
(* with names, trace ids and formats that exist and that do not.           *)
(***************************************************************************)
\* {} as a return value
Empty == <<>>

\* what a call on the manager returned (ret) or raised (raised)
ConfigCall(op, arg, ret, raised) == [op |-> op, arg |-> arg, ret |-> ret, raised |-> raised]

\* the manager after a call that does not touch its own fields
Answered(op, arg, ret, raised) ==
    [manager EXCEPT !.call = ConfigCall(op, arg, ret, raised), !.calls = @ + 1]

\* layout or {"type": "grid", "columns": 2}
DefaultLayout == [type |-> "grid", columns |-> 2]

\* ObservabilityManager.create_dashboard(name, metrics) (lines 395-401)
CreateDashboard(name, metric_names) ==
    /\ manager.calls < MaxConfigCalls
    /\ manager' = [Answered("create_dashboard", name, None, "none") EXCEPT
          !.dashboards = DictSet(@, name, [metrics |-> metric_names, layout |-> DefaultLayout,
                                           created_at |-> clock])]
    /\ UNCHANGED <<core, a2a, obs, collector, workers>>

\* what get_dashboard_data returns (lines 405-418)
DashboardData(name) ==
    IF ~DictHas(manager.dashboards, name) THEN Empty
    ELSE LET dashboard == DictGet(manager.dashboards, name, Empty)
         IN  [dashboard |-> dashboard,
              data |-> [i \in DOMAIN dashboard.metrics |->
                           <<dashboard.metrics[i], GetMetricSummary(collector, dashboard.metrics[i])>>],
              timestamp |-> clock]

\* ObservabilityManager.get_dashboard_data(name)
GetDashboardData(name) ==
    /\ manager.calls < MaxConfigCalls
    /\ manager' = Answered("get_dashboard_data", name, DashboardData(name), "none")
    /\ UNCHANGED <<core, a2a, obs, collector, workers>>

\* as TracesAfterGet, for a lookup written self.traces[trace_id]: the
\* defaultdict inserts the missing key
TracesAfterIndexing(d, trace_id) ==
    IF trace_id \in DOMAIN d THEN d ELSE d @@ (trace_id :> <<>>)

\* Tracer.traces after self.traces.get(trace_id, []) (line 131): dict.get
\* does not call the default factory
TracesAfterGet(d, trace_id) == d

\* sorted(..., key=lambda x: x["start_time"]): a stable sort, one insertion
InsertedByStart(sorted, k) ==
    LET pos == Cardinality({i \in DOMAIN sorted :
                               spans[sorted[i]].start_time <= spans[k].start_time})
    IN  SubSeq(sorted, 1, pos) \o <<k>> \o SubSeq(sorted, pos + 1, Len(sorted))

RECURSIVE Timeline(_)
Timeline(span_ids) ==
    IF span_ids = <<>> THEN <<>>
    ELSE InsertedByStart(Timeline(SubSeq(span_ids, 1, Len(span_ids) - 1)),
                         span_ids[Len(span_ids)])

\* what get_trace_analysis returns (lines 422-469), spans named by their ids
TraceAnalysis(trace_id) ==
    LET trace == GetTrace(trace_id)
        error_spans == Cardinality({i \in DOMAIN trace : "error" \in TagKeys(spans[trace[i]])})
    IN  IF trace = <<>> THEN Empty
        ELSE [trace_id |-> trace_id,
              total_duration |-> MaxOf([i \in DOMAIN trace |-> Duration(spans[trace[i]], clock)]),
              total_spans |-> Len(trace),
              error_spans |-> error_spans,
              success_rate |-> <<Len(trace) - error_spans, Len(trace)>>,
              trace_tree |-> TraceTree(trace_id),
              timeline |-> Timeline(trace)]

\* ObservabilityManager.get_trace_analysis(trace_id)
GetTraceAnalysis(trace_id) ==
    /\ manager.calls < MaxConfigCalls
    /\ manager' = Answered("get_trace_analysis", trace_id, TraceAnalysis(trace_id), "none")
    /\ traces' = TracesAfterGet(traces, trace_id)
    /\ UNCHANGED <<core, a2a, spans, active_spans, uuids, clock, exec, tcall, collector, workers>>

\* ObservabilityManager.export_metrics(format_type) (lines 471-478);
\* json.dumps(...) is the summaries under the tag "json"
ExportMetrics(format_type) ==
    /\ manager.calls < MaxConfigCalls
    /\ manager' =
          CASE format_type = "prometheus" ->
                  Answered("export_metrics", format_type,
                           <<"text", ExportPrometheusFormat(collector)>>, "none")
            [] format_type = "json" ->
                  Answered("export_metrics", format_type,
                           <<"json", GetAllMetrics(collector)>>, "none")
            [] OTHER ->
                  Answered("export_metrics", format_type, None, "ValueError")
    /\ UNCHANGED <<core, a2a, obs, collector, workers>>

Formats == {"prometheus", "json", "yaml"}

\* the dashboard names asked for: "main" is created, "ops" never is
DashboardNames == {"main", "ops"}

\* trace ids asked for: one a caller can pass to start_span, the first one
\* start_span makes itself, and one that no span ever gets
LookupIds == TraceArgs \cup {FreshTraceId(1), 999}

NextConfig ==
    \/ CreateDashboard("main", <<ChatRequests, SummaryName>>)
    \/ \E name \in DashboardNames : GetDashboardData(name)
    \/ \E trace_id \in LookupIds : GetTraceAnalysis(trace_id)
    \/ \E format_type \in Formats : ExportMetrics(format_type)
    \/ \E trace_id \in TraceArgs \cup {None} : StartSpan("c1", None, trace_id)
    \/ /\ Len(collector.log) < MaxMetricCalls
       /\ \/ Record("counter", ChatRequests, 1, <<>>)
          \/ Record("histogram", SummaryName, 10, <<>>)

SpecConfig == Init /\ [][NextConfig]_vars

\* no span was ever started under trace_id
UnknownTrace(trace_id) == \A k \in DOMAIN spans : spans[k].trace_id # trace_id

\* the state of the tracer, of the metrics collector and of the dashboards
Observed == <<spans, active_spans, traces, uuids, collector, manager.dashboards>>

\* C31: export_metrics with a format other than 'prometheus' or 'json'
\* fails with a reported error (ValueError); get_dashboard_data for an
\* unknown name and get_trace_analysis for an unknown trace id return an
\* empty result; none of these calls changes tracer, metrics or dashboard
\* state, and the trace lookup creates no trace entry.
C31_ConfigurationErrorsAreReported ==
    [][/\ (ManagerStep("export_metrics") /\ manager'.call.arg \notin {"prometheus", "json"})
            => /\ manager'.call.raised = "ValueError"
               /\ Observed' = Observed
       /\ (ManagerStep("get_dashboard_data")
             /\ \A i \in DOMAIN manager.dashboards : manager.dashboards[i][1] # manager'.call.arg)
            => /\ manager'.call.raised = "none"
               /\ manager'.call.ret = Empty
               /\ Observed' = Observed
       /\ (ManagerStep("get_trace_analysis") /\ UnknownTrace(manager'.call.arg))
            => /\ manager'.call.raised = "none"
               /\ manager'.call.ret = Empty
               /\ Observed' = Observed
               /\ DOMAIN traces' = DOMAIN traces]_vars

\* an unknown trace id was looked up while spans, metrics and a dashboard
\* exist
C31_Witness ==
    /\ manager.call.op = "get_trace_analysis"
    /\ manager.call.ret = Empty
    /\ manager.dashboards # <<>>
    /\ spans # <<>>
    /\ collector.metrics # <<>>

(***************************************************************************)
(* The session store under several process_message calls, one after the   *)
(* other, for two session ids, and under create_session calls made         *)
(* between them.                                                           *)
(***************************************************************************)
SessionMessages ==
    {Message(0, <<"h", "i">>, "user", "system"), Message(0, <<"y", "o">>, "user", "system")}

\* `result = await mas.process_message(...)` has returned or raised in the
\* caller: the call is over
TakeResult ==
    /\ orch.pc \in {"done", "raised"}
    /\ orch' = IdleOrch
    /\ UNCHANGED <<registry, state, event, waiters, metrics, tasks, ready, sessions>>
    /\ UNCHANGED others

\* as CreatedSession, leaving a session that exists as it is
CreatedSessionIfMissing(ss, s) ==
    IF ss[s].exists THEN ss ELSE [ss EXCEPT ![s] = CreateSession]

\* InMemorySessionService.create_session (lines 100-109): both dict entries
\* are assigned anew
CreatedSession(ss, s) == [ss EXCEPT ![s] = CreateSession]

\* MultiAgentSystem.create_session(session_id), called while no
\* process_message call is in flight; orch keeps which call was made last
\* and what it returned
CreateSessionCall(s) ==
    /\ ~Blocked
    /\ orch.pc = "idle"
    /\ sessions' = CreatedSession(sessions, s)
    /\ orch' = [IdleOrch EXCEPT !.entry = "create_session", !.session = s,
                                !.returns = "session", !.ret = <<sessions'[s]>>]
    /\ UNCHANGED <<registry, state, event, waiters, metrics, tasks, ready>>
    /\ UNCHANGED others

NextSessions ==
    \/ \E a \in AgentIds : RegisterAgent(a)
    \/ \E s \in SessionIds, msg \in SessionMessages, mode \in {"single", "sequential"} :
          /\ Len(sessions[s].messages) < MaxLogLen
          /\ Len(tasks) + Len(registry) <= MaxDispatches
          /\ ProcessMessage(s, msg, mode)
    \/ \E s \in SessionIds : CreateSessionCall(s)
    \/ SingleStep
    \/ SequentialStep
    \/ Continue
    \/ Respond
    \/ TakeResult

SpecSessions == Init /\ [][NextSessions]_vars

\* this step is the start of a process_message call
ProcessMessageStep == orch.pc = "idle" /\ orch'.pc # "idle" /\ orch'.entry = "process_message"

UserEpisode(msg) == [type |-> "user_message", content |-> msg.content, agent_id |-> ""]

\* C32: the first process_message for a session id creates the session and
\* its memory bank, every later one reuses them; each call appends the
\* inbound message to the session's log before any agent is invoked, so the
\* log grows by exactly the messages of the calls, in call order; the logs
\* of the other sessions are unchanged.
C32_SessionLogsEveryMessage ==
    [][ProcessMessageStep =>
          LET s == orch'.session
              msg == orch'.message
          IN  /\ sessions'[s].exists
              /\ IF sessions[s].exists
                 THEN /\ sessions'[s].messages = Append(sessions[s].messages, msg)
                      /\ sessions'[s].episodes = Append(sessions[s].episodes, UserEpisode(msg))
                 ELSE /\ sessions'[s].messages = <<msg>>
                      /\ sessions'[s].episodes = <<UserEpisode(msg)>>
              /\ \A other \in SessionIds \ {s} : sessions'[other] = sessions[other]
              /\ tasks' = tasks]_vars

\* the second call for a session has been logged after the first, while
\* the other session has a log of its own
C32_Witness ==
    /\ Len(sessions["s1"].messages) = 2
    /\ sessions["s1"].messages[1] # sessions["s1"].messages[2]
    /\ Len(sessions["s2"].messages) = 1
    /\ Len(sessions["s1"].episodes) > 2

\* this step is a call of create_session
CreateSessionStep == orch'.entry = "create_session" /\ orch' # orch

\* C40: create_session for a session id that already exists replaces the
\* session and its memory bank with fresh empty ones: the stored message
\* log and the episodic memory are gone; process_message (and the dispatch
\* it starts) never recreates or clears a session that exists: its log and
\* its episodic memory only grow.
C40_CreateSessionReplaces ==
    /\ [](orch.entry = "create_session" =>
             /\ sessions[orch.session].exists
             /\ sessions[orch.session].messages = <<>>
             /\ sessions[orch.session].episodes = <<>>
             /\ orch.ret = <<sessions[orch.session]>>)
    /\ [][CreateSessionStep =>
             \A other \in SessionIds \ {orch'.session} : sessions'[other] = sessions[other]]_vars
    /\ [][~CreateSessionStep =>
             \A s \in SessionIds :
                sessions[s].exists =>
                   /\ sessions'[s].exists
                   /\ IsPrefix(sessions[s].messages, sessions'[s].messages)
                   /\ IsPrefix(sessions[s].episodes, sessions'[s].episodes)]_vars

\* session s1 was created again after a dispatch had gone through it (s2
\* was never referenced, so the dispatch was made for s1): its log and its
\* episodes are empty
C40_Witness ==
    /\ orch.entry = "create_session"
    /\ orch.session = "s1"
    /\ sessions["s1"].messages = <<>>
    /\ sessions["s1"].episodes = <<>>
    /\ ~sessions["s2"].exists
    /\ tasks # <<>>

(***************************************************************************)
(* The lifecycle state against the pause flag and the calls in flight      *)
(* (SpecAgent).                                                            *)
(***************************************************************************)
\* a new process call on agent a would block in pause_event.wait()
PauseFlag(a) == ~event[a]

\* C33: an agent's state is paused if and only if its pause flag is set, in
\* every reachable state, also when pause() or resume() is called while a
\* process call is in flight.
C33_StateAgreesWithPauseFlag ==
    \A a \in AgentIds : state[a] = "paused" <=> PauseFlag(a)

\* the process calls on agent a that have started and not yet returned
InFlight(a) ==
    {t \in DOMAIN tasks : tasks[t].agent = a /\ tasks[t].pc \in {"waiting", "woken", "calling"}}

\* C34: an agent's state is running only while at least one process call on
\* it has started and not yet returned; pause() and resume() on an agent
\* with no process call in flight never leave it in state running.
C34_RunningOnlyWhileInFlight ==
    \A a \in AgentIds : state[a] = "running" => InFlight(a) # {}

(***************************************************************************)
(* More properties of the orchestrator                                     *)
(***************************************************************************)
\* C35: run_parallel_agents returns its responses in dispatch order: the
\* result list holds the Messages of the tasks that returned one, ordered as
\* their agents appear in the agent-id list (the k-th task is the task of
\* the k-th registered id of the list), whatever the order in which the
\* process calls finish.
C35_ResultsInDispatchOrder ==
    (ParallelRun /\ orch.pc = "done") =>
        /\ [k \in DOMAIN orch.tasks |-> tasks[orch.tasks[k]].agent] = InRegistry(orch.agent_ids)
        /\ \A j, k \in DOMAIN orch.tasks : j < k => orch.tasks[j] < orch.tasks[k]
        /\ {orch.ret[k].id : k \in DOMAIN orch.ret}
              = {t \in Range(orch.tasks) : tasks[t].pc = "done"}
        /\ \A k \in DOMAIN orch.ret :
              /\ orch.ret[k] = tasks[orch.ret[k].id].result
              /\ orch.ret[k].sender = tasks[orch.ret[k].id].agent
        /\ \A j, k \in DOMAIN orch.ret : j < k => orch.ret[j].id < orch.ret[k].id

\* the first task of the call waited on pause and finished after the
\* second task, and its Message is the first of the list
C35_Witness ==
    /\ ParallelRun
    /\ orch.pc = "done"
    /\ Len(orch.tasks) >= 2
    /\ tasks[orch.tasks[1]].blocked
    /\ tasks[orch.tasks[1]].pc = "done"
    /\ ~tasks[orch.tasks[2]].blocked
    /\ tasks[orch.tasks[2]].pc = "done"
    /\ Len(orch.ret) >= 2
    /\ orch.ret[1].sender = tasks[orch.tasks[1]].agent
    /\ orch.ret[2].sender # orch.ret[1].sender

(***************************************************************************)
(* The sequential and the loop topology over agents whose calls fail, with *)
(* no caller pausing an agent.                                             *)
(***************************************************************************)
NextPipelines ==
    \/ \E a \in AgentIds : RegisterAgent(a)
    \/ CallSequential
    \/ CallLoop
    \/ SequentialStep
    \/ LoopStep
    \/ Continue
    \/ Respond

SpecPipelines == Init /\ [][NextPipelines]_vars

\* call t has returned the Message of the except clause of process()
FailedCall(t) ==
    /\ tasks[t].pc = "done"
    /\ IsLLM(tasks[t].agent)
    /\ ~Succeeds(tasks[t].response)

\* the k-th call of the run is made on the agent of the k-th registered
\* list entry, pass after pass; a run that returned made whole passes only,
\* and a loop run returned because the passes were used up or the last
\* response of a pass held the sentinel
C36_EveryAgentEveryPass ==
    (SequentialRun \/ LoopRun) =>
        LET R == InRegistry(orch.agent_ids)
            n == Len(R)
        IN  /\ \A k \in DOMAIN tasks : tasks[k].agent = R[((k - 1) % n) + 1]
            /\ (orch.pc = "done" /\ SequentialRun) => Len(tasks) = n
            /\ (orch.pc = "done" /\ LoopRun) =>
                  /\ n > 0 => Len(tasks) % n = 0
                  /\ \/ Len(tasks) = n * orch.max_iterations
                     \/ /\ orch.ret # <<>>
                        /\ Contains(Last(orch.ret).content, Sentinel)

\* the Message of a failed call becomes the Message the orchestrator holds,
\* the run goes on, and the next call gets the Message the orchestrator
\* holds
C36_ErrorIsHandedOn ==
    /\ \A t \in DOMAIN tasks :
          (FailedCall(t) /\ tasks'[t].pc = "returned")
             => /\ Head(tasks[t].result.content) = "Error:"
                /\ orch'.current_message = tasks[t].result
                /\ orch'.pc \in {"sequential", "loop"}
                /\ state[tasks[t].agent] = "failed"
    /\ \A t \in DOMAIN tasks' : Called(t) => tasks'[t].msg = orch.current_message

\* C36: run_sequential_agents and run_loop_agents do not stop at a failed
\* agent: the error Message a failed process() returns is passed as the
\* input of the next agent, and every registered agent of the list is still
\* invoked exactly once per pass.
C36_FailureDoesNotStopTheRun ==
    /\ []C36_EveryAgentEveryPass
    /\ [][(SequentialRun \/ LoopRun) => C36_ErrorIsHandedOn]_vars

\* the first agent of a sequential run failed, and the second agent
\* answered to the error Message
C36_Witness ==
    /\ SequentialRun
    /\ orch.pc = "done"
    /\ orch.agent_ids = <<"a1", "a2">>
    /\ state["a1"] = "failed"
    /\ Len(tasks) = 2
    /\ orch.ret[1].sender = "a2"
    /\ Head(orch.ret[1].content) = "Error:"
    /\ Last(orch.ret[1].content) = "!"

(***************************************************************************)
(* The active-span marker of one execution that nests spans, and of        *)
(* executions on two threads that finish each other's spans.               *)
(***************************************************************************)
NextSlot ==
    \/ \E parent \in {None} \cup DOMAIN spans : StartSpan("c1", parent, None)
    \/ \E span_id \in Range(exec["c1"].started) : FinishSpan("c1", span_id)
    \/ Tick

SpecSlot == Init /\ [][NextSlot]_vars

\* the span started last
Newest == Len(spans)

\* C37: the active-span marker is a single slot per context, not a stack:
\* it only ever names the span started last; once that span is finished
\* get_active_span() returns none, although spans started before it are
\* still unfinished, and finishing one of those leaves the marker as it is.
C37_MarkerIsASingleSlot ==
    /\ [](/\ GetActiveSpan("c1") \in {None, Newest}
          /\ (spans # <<>> /\ spans[Newest].status = "finished") => GetActiveSpan("c1") = None)
    /\ [][(TracerStep("finish_span") /\ tcall'.span # Newest) =>
             active_spans' = active_spans]_vars

\* after start_span(A), start_span(B), finish_span(B), finish_span(A) is
\* still to come: A is unfinished and there is no active span
C37_Witness ==
    /\ Len(spans) = 2
    /\ tcall.op = "finish_span"
    /\ tcall.span = 2
    /\ spans[1].status = "active"
    /\ spans[2].status = "finished"
    /\ GetActiveSpan("c1") = None

\* c1 runs on the event loop's thread, c3 on a thread of its own; each
\* finishes spans of its own and of the other
NextMarkers ==
    \/ \E c \in {"c1", "c3"} : StartSpan(c, None, None)
    \/ \E c \in {"c1", "c3"}, span_id \in DOMAIN spans :
          spans[span_id].status = "active" /\ FinishSpan(c, span_id)
    \/ Tick

SpecMarkers == Init /\ [][NextMarkers]_vars

\* C38: get_active_span() never returns a span whose status is finished,
\* over any interleaving of start_span and finish_span calls from several
\* execution contexts, a span finished from another context than the one
\* that started it included.
C38_ActiveSpanIsNeverFinished ==
    \A c \in Execs :
        GetActiveSpan(c) # None => spans[GetActiveSpan(c)].status # "finished"

(***************************************************************************)
(* More properties of the A2A channel (SpecA2A)                            *)
(***************************************************************************)
\* how many times agent a is in the subscriber list of topic t
Subscriptions(a, t) ==
    Cardinality({k \in DOMAIN a2a.subscriptions[t] : a2a.subscriptions[t][k] = a})

\* C39: subscribe is not idempotent: every subscribe call adds one more
\* subscription of the agent to the topic, and an agent that has subscribed
\* k times to a topic gets k copies of every message published to that
\* topic afterwards, appended to its one mailbox.
C39_OneCopyPerSubscription ==
    [][/\ A2AStep("subscribe") =>
             \A a \in AgentIds, t \in Topics :
                 Subscriptions(a, t)' =
                     IF a = a2a'.call.agent /\ t = a2a'.call.topic
                     THEN Subscriptions(a, t) + 1 ELSE Subscriptions(a, t)
       /\ A2AStep("publish") =>
             \A a \in AgentIds :
                 a2a'.message_queue[a] =
                     Mailbox(a) \o [k \in 1..Subscriptions(a, a2a'.call.topic) |->
                                       a2a'.call.message]]_vars

\* a1 subscribed twice to topic t and a2 once: the publish put two copies in
\* a1's mailbox and one in a2's
C39_Witness ==
    /\ a2a.call.op = "publish"
    /\ a2a.call.topic = "t"
    /\ a2a.subscriptions["t"] = <<"a1", "a2", "a1">>
    /\ a2a.message_queue["a1"] = <<a2a.call.message, a2a.call.message>>
    /\ a2a.message_queue["a2"] = <<a2a.call.message>>

====
